---- MODULE Spec2Model ----
(***************************************************************************)
(* A model of rust-toml (src/src/toml/lib.rs): the Value tree, the         *)
(* ValueBuilder visitor that turns section and pair events into the tree,  *)
(* the dotted-path lookup, and the character-level Parser that scans a     *)
(* document and feeds the visitor.                                         *)
(*                                                                         *)
(* Strings are TLA+ strings; the i-th character of s is SubSeq(s, i, i).   *)
(* A HashMap<String, Value> is a function whose domain is its key set.     *)
(* A u64 is kept exactly, as four 16-bit limbs, least significant first.   *)
(***************************************************************************)
EXTENDS Integers, Sequences, FiniteSets, TLC

VARIABLES
    root,           \* ValueBuilder.root: the top-level HashMap
    current_path,   \* ValueBuilder.current_path: Vec<String>
    status,         \* where Parser::parse is: "running", "Ok", "ParseError"
    ev,             \* the event the parse loop delivered last
    nev,            \* number of statements read so far
    opened,         \* history: paths a non-array header has opened
    appends,        \* history: per [[p]] path, the pairs stored after each header
    src,            \* the document the reader holds
    src_end,        \* what the reader reports after the last character
    pos,            \* Parser: index of current_char in src (Len(src)+1 at end)
    line,           \* Parser.line
    doc,            \* how the document was put together
    decoding,       \* from_toml: the value and target type given, and its result
    looked          \* the lookups made on the tree: each call and its result

scanner == <<src, src_end, pos, line, doc>>

vars == <<root, current_path, status, ev, nev, opened, appends, src, src_end, pos, line, doc, decoding, looked>>

(***************************************************************************)
(* Characters                                                              *)
(***************************************************************************)
Ch(s, i) == SubSeq(s, i, i)

\* U+0008 cannot be written in a TLA+ string literal; "^" stands for it.
BS == "^"

Ascii == " !\"#$%&'()*+,-./0123456789:;<=>?@ABCDEFGHIJKLMNOPQRSTUVWXYZ[\\]"

Lower == "abcdefghijklmnopqrstuvwxyz"

IndexIn(s, c) == CHOOSE i \in 1..Len(s) : Ch(s, i) = c

InStr(s, c) == \E i \in 1..Len(s) : Ch(s, i) = c

\* The Unicode scalar value of a character.
Ord(c) ==
    CASE c = BS   -> 8
      [] c = "\t" -> 9
      [] c = "\n" -> 10
      [] c = "\f" -> 12
      [] c = "\r" -> 13
      [] InStr(Ascii, c) -> 31 + IndexIn(Ascii, c)
      [] InStr(Lower, c) -> 96 + IndexIn(Lower, c)

None == [some |-> FALSE]

Some(v) == [some |-> TRUE, v |-> v]

\* char::to_digit(c, radix): '0'..'9', then 'a'..'z' / 'A'..'Z' from 10.
to_digit(c, radix) ==
    LET o == Ord(c)
        val == CASE o >= 48 /\ o <= 57  -> o - 48
                 [] o >= 97 /\ o <= 122 -> o - 97 + 10
                 [] o >= 65 /\ o <= 90  -> o - 65 + 10
                 [] OTHER -> radix
    IN  IF val < radix THEN Some(val) ELSE None

\* char::from_u32: every u32 but the surrogates and the values above 0x10FFFF.
from_u32(n) ==
    IF (n >= 55296 /\ n <= 57343) \/ n > 1114111 THEN None ELSE Some(n)

(***************************************************************************)
(* u64 arithmetic, exact: <<l1, l2, l3, l4>> is l1 + l2*2^16 + ...         *)
(***************************************************************************)
LimbBase == 2^16

U64(n) == <<n % LimbBase, (n \div LimbBase) % LimbBase, 0, 0>>

\* num * 10 + d kept in 32 bits only
U64MulAddNarrow(num, d) ==
    LET a1 == num[1] * 10 + d
        a2 == num[2] * 10 + (a1 \div LimbBase)
    IN  <<a1 % LimbBase, a2 % LimbBase, 0, 0>>

\* num * 10 + d in u64: the carry out of the top limb is lost (wrapping).
U64MulAdd(num, d) ==
    LET a1 == num[1] * 10 + d
        a2 == num[2] * 10 + (a1 \div LimbBase)
        a3 == num[3] * 10 + (a2 \div LimbBase)
        a4 == num[4] * 10 + (a3 \div LimbBase)
    IN  <<a1 % LimbBase, a2 % LimbBase, a3 % LimbBase, a4 % LimbBase>>

\* n as u16
AsU16(num) == num[1]

(***************************************************************************)
(* enum Value                                                              *)
(***************************************************************************)
NoValue == [t |-> "NoValue"]

Boolean(b) == [t |-> "Boolean", b |-> b]

PosInt(n) == [t |-> "PosInt", n |-> n]

NegInt(n) == [t |-> "NegInt", n |-> n]

\* The f64 is kept as what determines it: mul * (n as f64 + 0.frac).
Float(mul, n, frac) == [t |-> "Float", mul |-> mul, n |-> n, frac |-> frac]

\* A decoded string is the sequence of its characters' scalar values.
String(s) == [t |-> "String", s |-> s]

Datetime(y, mo, d, h, mi, s) ==
    [t |-> "Datetime", y |-> y, mo |-> mo, d |-> d, h |-> h, mi |-> mi, s |-> s]

Array(elems) == [t |-> "Array", elems |-> elems]

TableArray(elems) == [t |-> "TableArray", elems |-> elems]

Table(already_created, map) == [t |-> "Table", opened |-> already_created, map |-> map]

\* HashMap::new()
EmptyMap == <<>>

have_equiv_types(v1, v2) ==
    CASE v1.t = "Boolean"  /\ v2.t = "Boolean"  -> TRUE
      [] v1.t = "PosInt"   /\ v2.t = "PosInt"   -> TRUE
      [] v1.t = "PosInt"   /\ v2.t = "NegInt"   -> TRUE
      [] v1.t = "NegInt"   /\ v2.t = "PosInt"   -> TRUE
      [] v1.t = "NegInt"   /\ v2.t = "NegInt"   -> TRUE
      [] v1.t = "Float"    /\ v2.t = "Float"    -> TRUE
      [] v1.t = "String"   /\ v2.t = "String"   -> TRUE
      [] v1.t = "Datetime" /\ v2.t = "Datetime" -> TRUE
      [] v1.t = "Array"    /\ v2.t = "Array"    -> TRUE
      [] OTHER -> FALSE

(***************************************************************************)
(* String helpers of the standard library                                  *)
(***************************************************************************)
\* Index of the first "." of s at or after i, or Len(s) + 1.
RECURSIVE FindDot(_, _)
FindDot(s, i) ==
    IF i > Len(s) \/ Ch(s, i) = "." THEN i ELSE FindDot(s, i + 1)

\* A split that leaves the empty segments out.
RECURSIVE SplitDotsSkippingEmpty(_)
SplitDotsSkippingEmpty(s) ==
    LET d    == FindDot(s, 1)
        head == SubSeq(s, 1, d - 1)
        rest == IF d > Len(s) THEN <<>>
                ELSE SplitDotsSkippingEmpty(SubSeq(s, d + 1, Len(s)))
    IN  (IF head = "" THEN <<>> ELSE <<head>>) \o rest

\* s.split('.') collected: "" gives <<"">>, "a." gives <<"a", "">>.
RECURSIVE SplitDots(_)
SplitDots(s) ==
    LET d == FindDot(s, 1)
    IN  IF d > Len(s) THEN <<s>>
        ELSE <<SubSeq(s, 1, d - 1)>> \o SplitDots(SubSeq(s, d + 1, Len(s)))

IsDigit(c) == InStr("0123456789", c)

RECURSIVE DecimalValue(_)
DecimalValue(s) ==
    IF s = "" THEN 0
    ELSE DecimalValue(SubSeq(s, 1, Len(s) - 1)) * 10 + (Ord(Ch(s, Len(s))) - 48)

\* from_str::<uint>(p) on the segments a lookup path is made of here (letters
\* and short digit runs): a non-empty run of decimal digits is its value.
from_str_uint(p) ==
    IF p # "" /\ \A i \in 1..Len(p) : IsDigit(Ch(p, i))
    THEN Some(DecimalValue(p)) ELSE None

(***************************************************************************)
(* Value::lookup and the single-step lookups                               *)
(***************************************************************************)
Key(k) == [kind |-> "Key", key |-> k]

Idx(i) == [kind |-> "Idx", idx |-> i]

\* Variant: an index also resolves against an Array.
lookup_idx_any_sequence(idx, value) ==
    IF value.t \in {"TableArray", "Array"}
    THEN IF idx < Len(value.elems) THEN Some(value.elems[idx + 1]) ELSE None
    ELSE None

\* impl LookupValue for uint
lookup_idx(idx, value) ==
    IF value.t = "TableArray"
    THEN IF idx < Len(value.elems) THEN Some(value.elems[idx + 1]) ELSE None
    ELSE None

\* impl LookupValue for &str
lookup_key(key, value) ==
    IF value.t = "Table"
    THEN IF key \in DOMAIN value.map THEN Some(value.map[key]) ELSE None
    ELSE None

\* impl LookupValue for PathElement, through Value::lookup_elm
lookup_elm(value, elm) ==
    IF elm.kind = "Key" THEN lookup_key(elm.key, value)
    ELSE lookup_idx(elm.idx, value)

\* Value::lookup_vec
lookup_vec(value, idx) ==
    IF value.t = "Array"
    THEN IF idx < Len(value.elems) THEN Some(value.elems[idx + 1]) ELSE None
    ELSE None

\* impl LookupValue for &[PathElement], through Value::lookup_elm
RECURSIVE lookup_path_elts(_, _)
lookup_path_elts(value, path) ==
    IF path = <<>> THEN Some(value)
    ELSE LET a == lookup_elm(value, Head(path))
         IN  IF a.some THEN lookup_path_elts(a.v, Tail(path)) ELSE None

\* Variant of the loop that passes over a segment it cannot resolve.
RECURSIVE lookup_from_passing(_, _, _)
lookup_from_passing(curr, segs, i) ==
    IF i > Len(segs) THEN curr
    ELSE LET n   == from_str_uint(segs[i])
             elm == IF n.some THEN Idx(n.v) ELSE Key(segs[i])
             r   == lookup_elm(curr.v, elm)
         IN  lookup_from_passing(IF r.some THEN r ELSE curr, segs, i + 1)

\* The for loop of Value::lookup over the segments from position i on.
RECURSIVE lookup_from(_, _, _)
lookup_from(curr, segs, i) ==
    IF i > Len(segs) \/ ~curr.some THEN curr
    ELSE LET n   == from_str_uint(segs[i])
             elm == IF n.some THEN Idx(n.v) ELSE Key(segs[i])
         IN  lookup_from(lookup_elm(curr.v, elm), segs, i + 1)

\* Value::lookup
lookup(value, path) == lookup_from(Some(value), SplitDots(path), 1)

(***************************************************************************)
(* ValueBuilder                                                            *)
(***************************************************************************)
Done(ht) == [ok |-> TRUE, panic |-> FALSE, ht |-> ht]

Fail(ht) == [ok |-> FALSE, panic |-> FALSE, ht |-> ht]

\* A failed assert!, unwrap or unreachable!
Panic(ht) == [ok |-> FALSE, panic |-> TRUE, ht |-> ht]

\* Variant: an insert that never reports an existing key.
HashMapInsertNoDup(ht, key, val) ==
    [ok    |-> TRUE,
     panic |-> FALSE,
     ht    |-> [k \in DOMAIN ht \cup {key} |-> IF k = key THEN val ELSE ht[k]]]

\* HashMap::insert: stores val under key, replacing what was there, and
\* returns true iff the key was not in the map.
HashMapInsert(ht, key, val) ==
    [ok    |-> key \notin DOMAIN ht,
     panic |-> FALSE,
     ht    |-> [k \in DOMAIN ht \cup {key} |-> IF k = key THEN val ELSE ht[k]]]

\* Variant: descend into the first element.
mut_first(table_array) == 1

\* table_array.mut_last(): the position of the last element
mut_last(table_array) == Len(table_array)

\* Variant: the terminal step on a Table does not look at is_array.
TerminalOnTableAnyKind(ht, already_created, is_array) ==
    IF already_created THEN Fail(ht) ELSE Done(ht)

\* The terminal step on an existing Table(already_created, _).
TerminalOnTable(ht, already_created, is_array) ==
    IF is_array THEN Fail(ht)
    ELSE IF already_created THEN Fail(ht) ELSE Done(ht)

\* Variant: the new table takes the place of the tables stored so far.
TerminalOnTableArrayReplacing(ht, head, is_array) ==
    IF is_array
    THEN Done([ht EXCEPT ![head] = TableArray(<<Table(TRUE, EmptyMap)>>)])
    ELSE Fail(ht)

\* The terminal step on an existing TableArray stored under head.
TerminalOnTableArray(ht, head, is_array) ==
    IF is_array
    THEN Done([ht EXCEPT ![head] =
                 TableArray(Append(ht[head].elems, Table(TRUE, EmptyMap)))])
    ELSE Fail(ht)

\* Variant: a new array of tables starts without a table.
NewTerminalEmpty(is_array) ==
    IF is_array THEN TableArray(<<>>) ELSE Table(TRUE, EmptyMap)

\* Variant: a new terminal table is not marked as opened.
NewTerminalUnopened(is_array) ==
    IF is_array THEN TableArray(<<Table(FALSE, EmptyMap)>>)
    ELSE Table(FALSE, EmptyMap)

\* The value a terminal step stores under a key that is absent.
NewTerminal(is_array) ==
    IF is_array THEN TableArray(<<Table(FALSE, EmptyMap)>>)
    ELSE Table(TRUE, EmptyMap)

RECURSIVE recursive_create_tree(_, _, _)
recursive_create_tree(path, ht, is_array) ==
    IF Len(path) = 0 THEN Panic(ht)
    ELSE IF Head(path) = "" THEN Fail(ht)
    ELSE
      LET term_rec == Len(path) = 1
          head     == Head(path)
      IN
      IF head \in DOMAIN ht
      THEN
        LET v == ht[head] IN
        CASE v.t = "TableArray" ->
               IF Len(v.elems) = 0 THEN Panic(ht)
               ELSE IF term_rec THEN TerminalOnTableArray(ht, head, is_array)
               ELSE
                 LET i    == mut_last(v.elems)
                     last == v.elems[i]
                 IN  IF last.t # "Table" THEN Panic(ht)
                     ELSE
                       LET r == recursive_create_tree(Tail(path), last.map, is_array)
                       IN  [r EXCEPT !.ht =
                              [ht EXCEPT ![head] =
                                 TableArray([v.elems EXCEPT ![i] =
                                               Table(last.opened, r.ht)])]]
          [] v.t = "Table" ->
               IF term_rec THEN TerminalOnTable(ht, v.opened, is_array)
               ELSE
                 LET r == recursive_create_tree(Tail(path), v.map, is_array)
                 IN  [r EXCEPT !.ht = [ht EXCEPT ![head] = Table(v.opened, r.ht)]]
          [] OTHER -> Fail(ht)
      ELSE
        IF term_rec THEN
          LET ins == HashMapInsert(ht, head, NewTerminal(is_array))
          IN  IF ins.ok THEN ins ELSE Panic(ins.ht)
        ELSE
          LET r == recursive_create_tree(Tail(path), EmptyMap, is_array)
          IN  IF ~r.ok THEN [r EXCEPT !.ht = ht]
              ELSE LET ins == HashMapInsert(ht, head, Table(FALSE, r.ht))
                   IN  IF ins.ok THEN ins ELSE Panic(ins.ht)

RECURSIVE insert_value(_, _, _, _)
insert_value(path, key, ht, val) ==
    IF Len(path) = 0 THEN HashMapInsert(ht, key, val)
    ELSE
      LET head == Head(path) IN
      IF head \notin DOMAIN ht THEN Fail(ht)
      ELSE
        LET v == ht[head] IN
        CASE v.t = "Table" ->
               LET r == insert_value(Tail(path), key, v.map, val)
               IN  [r EXCEPT !.ht = [ht EXCEPT ![head] = Table(v.opened, r.ht)]]
          [] v.t = "TableArray" ->
               IF Len(v.elems) = 0 THEN Panic(ht)
               ELSE
                 LET i    == mut_last(v.elems)
                     last == v.elems[i]
                 IN  IF last.t # "Table" THEN Panic(ht)
                     ELSE
                       LET r == insert_value(Tail(path), key, last.map, val)
                       IN  [r EXCEPT !.ht =
                              [ht EXCEPT ![head] =
                                 TableArray([v.elems EXCEPT ![i] =
                                               Table(last.opened, r.ht)])]]
          [] OTHER -> Fail(ht)

\* Visitor::section: current_path is replaced before the tree is touched.
section(ht, name, is_array) ==
    LET path == SplitDots(name)
        r    == recursive_create_tree(path, ht, is_array)
    IN  [ok |-> r.ok, panic |-> r.panic, ht |-> r.ht, path |-> path]

\* Variant: the pair is stored in the root table, whatever the path.
pair_in_root(ht, path, key, val) == insert_value(<<>>, key, ht, val)

\* Visitor::pair
pair(ht, path, key, val) == insert_value(path, key, ht, val)

(***************************************************************************)
(* Parser: the scanner.  A parser state p is [pos, line, panic];            *)
(* current_char is the character of src at p.pos, or the reader's error    *)
(* past the end; panic is set by an assert! that failed.                   *)
(***************************************************************************)
\* let b = v; F(b): a local of the code, computed once where it is declared.
Bind(v, F(_)) == CHOOSE r \in {F(b) : b \in {v}} : TRUE

ch(p) == IF p.pos <= Len(src) THEN Some(Ch(src, p.pos)) ELSE None

eos(p) == p.pos > Len(src)

\* Some(e) for a read fault, None for a character or EndOfFile.
to_err(p) ==
    IF p.pos <= Len(src) \/ src_end = "EndOfFile" THEN None ELSE Some(src_end)

\* One read_char of the reader: pos - 1 is the number of reads made after
\* the one of Parser::new.  Past the end the reader keeps answering with its
\* error.
advance(p) == [p EXCEPT !.pos = @ + 1]

advance_if(p, c) ==
    IF ch(p) = Some(c) THEN [ok |-> TRUE, p |-> advance(p)]
    ELSE [ok |-> FALSE, p |-> p]

\* advance_if(c1) && advance_if(c2) && ... for the characters of word.
RECURSIVE advance_all(_, _)
advance_all(p, word) ==
    IF word = "" THEN [ok |-> TRUE, p |-> p]
    ELSE Bind(advance_if(p, Ch(word, 1)), LAMBDA a :
           IF a.ok
           THEN Bind(SubSeq(word, 2, Len(word)), LAMBDA rest : advance_all(a.p, rest))
           ELSE a)

read_digit(p, radix) ==
    IF eos(p) THEN [d |-> None, p |-> p]
    ELSE LET n == to_digit(ch(p).v, radix)
         IN  IF n.some THEN [d |-> n, p |-> advance(p)] ELSE [d |-> None, p |-> p]

read_two_digits(p) ==
    Bind(read_digit(p, 10), LAMBDA d1 :
    Bind(read_digit(d1.p, 10), LAMBDA d2 :
      [d |-> IF d1.d.some /\ d2.d.some THEN Some(d1.d.v * 10 + d2.d.v) ELSE None,
       p |-> d2.p]))

RECURSIVE read_digits_loop(_, _, _)
read_digits_loop(num, ndigits, p) ==
    Bind([num |-> num, ndigits |-> ndigits, d |-> read_digit(p, 10)], LAMBDA l :
      IF l.d.d.some
      THEN read_digits_loop(U64MulAdd(l.num, l.d.d.v), l.ndigits + 1, l.d.p)
      ELSE [num |-> Some(l.num), ndigits |-> l.ndigits, p |-> l.d.p])

read_digits(p) ==
    Bind(read_digit(p, 10), LAMBDA d :
      IF d.d.some THEN read_digits_loop(U64(d.d.v), 1, d.p)
      ELSE [num |-> None, ndigits |-> 0, p |-> p])

\* The digits after the point; they determine the f64 the loop sums up.
RECURSIVE read_float_mantissa(_, _)
read_float_mantissa(frac, p) ==
    Bind([frac |-> frac, c |-> ch(p), d |-> read_digit(p, 10)], LAMBDA l :
      IF l.d.d.some THEN read_float_mantissa(l.frac \o l.c.v, l.d.p)
      ELSE [frac |-> l.frac, p |-> l.d.p])

parse_float_rest(p, n, mul) ==
    IF ~ch(p).some THEN [val |-> NoValue, p |-> p]
    ELSE IF IsDigit(ch(p).v)
         THEN Bind(read_float_mantissa("", p), LAMBDA m :
                [val |-> Float(mul, n, m.frac), p |-> m.p])
         ELSE [val |-> NoValue, p |-> p]

RECURSIVE skip_comment_loop(_)
skip_comment_loop(p) ==
    Bind(advance(p), LAMBDA q :
      IF ch(q) = Some("\n") THEN [eol |-> TRUE, p |-> q]
      ELSE IF ~ch(q).some THEN [eol |-> FALSE, p |-> q]
      ELSE skip_comment_loop(q))

\* Variant: the character after the comment is read also when the comment
\* was ended by the end of the input.
skip_comment_reading_on(p) ==
    IF ch(p) # Some("#") THEN [p EXCEPT !.panic = TRUE]
    ELSE Bind(skip_comment_loop(p), LAMBDA r :
           advance(IF r.eol THEN [r.p EXCEPT !.line = @ + 1] ELSE r.p))

\* assert!(self.ch() == Some('#')), then the loop
skip_comment(p) ==
    IF ch(p) # Some("#") THEN [p EXCEPT !.panic = TRUE]
    ELSE Bind(skip_comment_loop(p), LAMBDA r :
           IF r.eol THEN advance([r.p EXCEPT !.line = @ + 1]) ELSE r.p)

RECURSIVE skip_whitespaces(_)
skip_whitespaces(p) ==
    IF ch(p) \in {Some(" "), Some("\t"), Some("\r")}
    THEN Bind(advance(p), LAMBDA q : skip_whitespaces(q))
    ELSE IF ch(p) = Some("\n")
         THEN Bind([advance(p) EXCEPT !.line = @ + 1], LAMBDA q : skip_whitespaces(q))
    ELSE p

\* skip_whitespaces_and_comments without its '#' arm
skip_whitespaces_no_comments(p) == skip_whitespaces(p)

RECURSIVE skip_whitespaces_and_comments(_)
skip_whitespaces_and_comments(p) ==
    IF ch(p) \in {Some(" "), Some("\t"), Some("\r")}
    THEN Bind(advance(p), LAMBDA q : skip_whitespaces_and_comments(q))
    ELSE IF ch(p) = Some("\n")
         THEN Bind([advance(p) EXCEPT !.line = @ + 1],
                   LAMBDA q : skip_whitespaces_and_comments(q))
    ELSE IF ch(p) = Some("#")
         THEN Bind(skip_comment(p), LAMBDA q : skip_whitespaces_and_comments(q))
    ELSE p

\* read_token(f): the characters up to the first one in stop.
RECURSIVE read_token(_, _, _)
read_token(token, p, stop) ==
    Bind([token |-> token, p |-> p], LAMBDA l :
      IF ch(l.p).some /\ ch(l.p).v \notin stop
      THEN read_token(l.token \o ch(l.p).v, advance(l.p), stop)
      ELSE l)

parse_section_identifier(p) == read_token("", p, {"\t", "\n", "\r", "[", "]"})

(***************************************************************************)
(* Parser: values                                                          *)
(***************************************************************************)
\* The escapes of one character.
escape_char(c) ==
    CASE c = "b"  -> Some(8)
      [] c = "t"  -> Some(Ord("\t"))
      [] c = "n"  -> Some(Ord("\n"))
      [] c = "f"  -> Some(12)
      [] c = "r"  -> Some(Ord("\r"))
      [] c = "\"" -> Some(Ord("\""))
      [] c = "/"  -> Some(Ord("/"))
      [] c = "\\" -> Some(Ord("\\"))
      [] OTHER    -> None

\* \uXXXX, after the u.
unicode_escape(p) ==
    Bind(read_digit(p, 16), LAMBDA d1 :
    Bind(read_digit(d1.p, 16), LAMBDA d2 :
    Bind(read_digit(d2.p, 16), LAMBDA d3 :
    Bind(read_digit(d3.p, 16), LAMBDA d4 :
      IF d1.d.some /\ d2.d.some /\ d3.d.some /\ d4.d.some
      THEN [c |-> from_u32(((d1.d.v * 16 + d2.d.v) * 16 + d3.d.v) * 16 + d4.d.v),
            p |-> d4.p]
      ELSE [c |-> None, p |-> d4.p]))))

RECURSIVE parse_string_loop(_, _)

\* parse_string after a backslash, q at the character that follows it
parse_escape(str, q) ==
    IF ~ch(q).some THEN [s |-> None, p |-> q]
    ELSE IF ch(q).v = "u" THEN
      Bind(unicode_escape(advance(q)), LAMBDA u :
        IF u.c.some
        THEN Bind(Append(str, u.c.v), LAMBDA str2 : parse_string_loop(str2, u.p))
        ELSE [s |-> None, p |-> u.p])
    ELSE
      Bind(escape_char(ch(q).v), LAMBDA e :
        IF e.some
        THEN Bind([str |-> Append(str, e.v), p |-> advance(q)], LAMBDA l :
               parse_string_loop(l.str, l.p))
        ELSE [s |-> None, p |-> q])

parse_string_loop(str, p) ==
    IF ~ch(p).some THEN [s |-> None, p |-> p]
    ELSE
      LET c == ch(p).v IN
      IF c \in {"\r", "\n", "\f", BS} THEN [s |-> None, p |-> p]
      ELSE IF c = "\\" THEN Bind(advance(p), LAMBDA q : parse_escape(str, q))
      ELSE IF c = "\"" THEN [s |-> Some(str), p |-> advance(p)]
      ELSE Bind([str |-> Append(str, Ord(c)), p |-> advance(p)], LAMBDA l :
             parse_string_loop(l.str, l.p))

parse_string(p) ==
    Bind(advance_if(p, "\""), LAMBDA a :
      IF ~a.ok THEN [s |-> None, p |-> p] ELSE parse_string_loop(<<>>, a.p))

datetime_in_range(m, d, h, min, s) ==
    m > 0 /\ m <= 12 /\ d > 0 /\ d <= 31 /\ h <= 24 /\ min <= 60 /\ s <= 60

\* read_two_digits() followed by advance_if(sep): x.is_none() || !advance_if(sep)
read_field(p, sep) ==
    Bind(read_two_digits(p), LAMBDA f :
      IF ~f.d.some THEN [d |-> None, p |-> f.p]
      ELSE Bind(advance_if(f.p, sep), LAMBDA a :
             [d |-> IF a.ok THEN f.d ELSE None, p |-> a.p]))

\* The datetime continuation of parse_value, after the '-' that follows a
\* run of four digits with value year.
parse_datetime_rest(p, year) ==
    Bind(read_field(p, "-"), LAMBDA month :
    IF ~month.d.some THEN [val |-> NoValue, p |-> month.p] ELSE
    Bind(read_field(month.p, "T"), LAMBDA day :
    IF ~day.d.some THEN [val |-> NoValue, p |-> day.p] ELSE
    Bind(read_field(day.p, ":"), LAMBDA hour :
    IF ~hour.d.some THEN [val |-> NoValue, p |-> hour.p] ELSE
    Bind(read_field(hour.p, ":"), LAMBDA min :
    IF ~min.d.some THEN [val |-> NoValue, p |-> min.p] ELSE
    Bind(read_field(min.p, "Z"), LAMBDA sec :
    IF ~sec.d.some THEN [val |-> NoValue, p |-> sec.p] ELSE
    IF datetime_in_range(month.d.v, day.d.v, hour.d.v, min.d.v, sec.d.v)
    THEN [val |-> Datetime(AsU16(year), month.d.v, day.d.v,
                           hour.d.v, min.d.v, sec.d.v),
          p |-> sec.p]
    ELSE [val |-> NoValue, p |-> sec.p])))))

\* parse_value on '-'
parse_negative(p) ==
    Bind(read_digits(advance(p)), LAMBDA r :
      IF ~r.num.some THEN [val |-> NoValue, p |-> r.p]
      ELSE IF ch(r.p) = Some(".") THEN parse_float_rest(advance(r.p), r.num.v, -1)
      ELSE [val |-> NegInt(r.num.v), p |-> r.p])

\* parse_value on '0' .. '9'; (None, _) is the arm of assert!(false)
parse_number(p) ==
    Bind(read_digits(p), LAMBDA r :
      IF ~r.num.some THEN [val |-> NoValue, p |-> [r.p EXCEPT !.panic = TRUE]]
      ELSE IF ch(r.p) = Some(".") THEN parse_float_rest(advance(r.p), r.num.v, 1)
      ELSE IF ch(r.p) = Some("-")
           THEN IF r.ndigits # 4 THEN [val |-> NoValue, p |-> r.p]
                ELSE parse_datetime_rest(advance(r.p), r.num.v)
      ELSE [val |-> PosInt(r.num.v), p |-> r.p])

parse_word(p, word, val) ==
    Bind(advance_all(advance(p), word), LAMBDA a :
      [val |-> IF a.ok THEN val ELSE NoValue, p |-> a.p])

RECURSIVE parse_value(_)
RECURSIVE parse_array_loop(_, _)

\* After the element loop of an array: skip, then the closing bracket.
parse_array_close(arr, p) ==
    Bind(skip_whitespaces_and_comments(p), LAMBDA q :
    Bind(advance_if(q, "]"), LAMBDA a :
      [val |-> IF a.ok THEN Array(arr) ELSE NoValue, p |-> a.p]))

parse_array_loop(arr, p) ==
    Bind(parse_value(p), LAMBDA r :
      IF r.val = NoValue THEN parse_array_close(arr, r.p)
      ELSE IF arr # <<>> /\ ~have_equiv_types(arr[1], r.val)
           THEN [val |-> NoValue, p |-> r.p]
      ELSE Bind(Append(arr, r.val), LAMBDA arr2 :
           Bind(skip_whitespaces_and_comments(r.p), LAMBDA q :
           Bind(advance_if(q, ","), LAMBDA a :
             IF a.ok THEN parse_array_loop(arr2, a.p)
             ELSE parse_array_close(arr2, a.p)))))

parse_value(p0) ==
    Bind(skip_whitespaces_and_comments(p0), LAMBDA p :
      IF eos(p) THEN [val |-> NoValue, p |-> p]
      ELSE
        LET c == ch(p).v IN
        CASE c = "-"    -> parse_negative(p)
          [] IsDigit(c) -> parse_number(p)
          [] c = "t"    -> parse_word(p, "rue", Boolean(TRUE))
          [] c = "f"    -> parse_word(p, "alse", Boolean(FALSE))
          [] c = "["    -> parse_array_loop(<<>>, advance(p))
          [] c = "\""   -> Bind(parse_string(p), LAMBDA r :
                             [val |-> IF r.s.some THEN String(r.s.v) ELSE NoValue,
                              p |-> r.p])
          [] OTHER      -> [val |-> NoValue, p |-> p])

(***************************************************************************)
(* Parser::parse seen from the visitor: one action per statement the loop  *)
(* reads.  The header name or the key and value are what the scanner       *)
(* handed over; ParseStep below runs the scanner on a document instead.    *)
(***************************************************************************)
MaxEvents == 4

SectionNames == {"a", "a.b", "a.b.c", "a.0", "a.", ""}

PairKeys == {"a", "b", "x"}

PairValues ==
    {PosInt(U64(1)), PosInt(U64(2)),
     Array(<<PosInt(U64(1)), PosInt(U64(2)), NegInt(U64(3))>>)}

IsPrefix(p, q) == Len(p) <= Len(q) /\ SubSeq(q, 1, Len(p)) = p

IsStrictPrefix(p, q) == Len(p) < Len(q) /\ IsPrefix(p, q)

StatusOf(r) == IF r.panic THEN "Panic" ELSE IF r.ok THEN "running" ELSE "ParseError"

ScannerIdle ==
    /\ src = "" /\ src_end = "EndOfFile" /\ pos = 1 /\ line = 1
    /\ doc = [family |-> "events"]

InitBuilder ==
    /\ root = EmptyMap
    /\ current_path = <<>>
    /\ status = "running"
    /\ ev = [op |-> "none"]
    /\ nev = 0
    /\ opened = {}
    /\ appends = <<>>

\* No from_toml call is under way.
DecoderIdle == decoding = [k |-> "idle"]

LookupIdle == looked = <<>>

Init == InitBuilder /\ ScannerIdle /\ DecoderIdle /\ LookupIdle

\* History kept beside a section event that succeeded.
OpenedAfter(path, is_array) ==
    IF is_array THEN {q \in opened : ~IsStrictPrefix(path, q)}
    ELSE opened \cup {path}

AppendsAfter(path, is_array) ==
    IF ~is_array THEN appends
    ELSE LET keep == {q \in DOMAIN appends : ~IsStrictPrefix(path, q)} \cup {path}
         IN  [q \in keep |->
                IF q = path
                THEN (IF path \in DOMAIN appends THEN appends[path] ELSE <<>>) \o <<{}>>
                ELSE appends[q]]

\* lib.rs 795-818: a header [name] or [[name]] has been read and closed.
DeliverSection(name, is_array) ==
    IF name = ""
    THEN /\ status' = "ParseError"
         /\ ev' = [op |-> "section", name |-> name, is_array |-> is_array,
                   ok |-> FALSE, called |-> FALSE]
         /\ UNCHANGED <<root, current_path, opened, appends>>
    ELSE LET r == section(root, name, is_array) IN
         /\ root' = r.ht
         /\ current_path' = r.path
         /\ status' = StatusOf(r)
         /\ ev' = [op |-> "section", name |-> name, is_array |-> is_array,
                   ok |-> r.ok, called |-> TRUE]
         /\ opened' = IF r.ok THEN OpenedAfter(r.path, is_array) ELSE opened
         /\ appends' = IF r.ok THEN AppendsAfter(r.path, is_array) ELSE appends

\* lib.rs 834-839: key = value has been read and the value is not NoValue.
DeliverPair(key, val) ==
    LET r == pair(root, current_path, key, val) IN
    /\ root' = r.ht
    /\ status' = StatusOf(r)
    /\ ev' = [op |-> "pair", key |-> key, val |-> val, ok |-> r.ok]
    /\ appends' = IF r.ok /\ current_path \in DOMAIN appends
                  THEN [appends EXCEPT ![current_path] =
                          [@ EXCEPT ![Len(@)] = @ \cup {<<key, val>>}]]
                  ELSE appends
    /\ UNCHANGED <<current_path, opened>>

Section(name, is_array) ==
    /\ status = "running"
    /\ nev < MaxEvents
    /\ nev' = nev + 1
    /\ DeliverSection(name, is_array)
    /\ UNCHANGED <<scanner, decoding, looked>>

Pair(key, val) ==
    /\ status = "running"
    /\ nev < MaxEvents
    /\ nev' = nev + 1
    /\ DeliverPair(key, val)
    /\ UNCHANGED <<scanner, decoding, looked>>

\* lib.rs 789-791: clean end of input between statements.
Eof ==
    /\ status = "running"
    /\ status' = "Ok"
    /\ ev' = [op |-> "eof"]
    /\ UNCHANGED <<root, current_path, nev, opened, appends>>
    /\ UNCHANGED <<scanner, decoding, looked>>

Next ==
    \/ \E name \in SectionNames, is_array \in BOOLEAN : Section(name, is_array)
    \/ \E key \in PairKeys, val \in PairValues : Pair(key, val)
    \/ Eof

Spec == Init /\ [][Next]_vars

(***************************************************************************)
(* Parser::parse on a document: one action per turn of its loop.           *)
(***************************************************************************)
\* A failed assert! of the scanner: the parse unwinds.
Unwind(p) ==
    /\ status' = "Panic"
    /\ ev' = [op |-> "panic"]
    /\ pos' = p.pos
    /\ line' = p.line
    /\ UNCHANGED <<root, current_path, opened, appends>>

\* return Err(ParseError) before the visitor is called
SyntaxError(p) ==
    /\ status' = "ParseError"
    /\ ev' = [op |-> "syntax"]
    /\ pos' = p.pos
    /\ line' = p.line
    /\ UNCHANGED <<root, current_path, opened, appends>>

ParseHeader(p) ==
    LET q      == advance(p)
        double == ch(q) = Some("[")
        q2     == IF double THEN advance(q) ELSE q
    IN  \E name \in {parse_section_identifier(q2)} :
        \E a1 \in {advance_if(name.p, "]")} :
        \E a2 \in {IF double THEN advance_if(a1.p, "]") ELSE a1} :
          IF name.token = ""
          THEN /\ DeliverSection("", double)
               /\ pos' = name.p.pos /\ line' = name.p.line
          ELSE IF ~a1.ok THEN SyntaxError(a1.p)
          ELSE IF ~a2.ok THEN SyntaxError(a2.p)
          ELSE /\ DeliverSection(name.token, double)
               /\ pos' = a2.p.pos /\ line' = a2.p.line

ParseAssignment(p) ==
    \E ident \in {read_token("", p, {" ", "\t", "\r", "\n", "="})} :
    \E q \in {skip_whitespaces(ident.p)} :
    \E a \in {advance_if(q, "=")} :
      IF ~a.ok THEN SyntaxError(a.p)
      ELSE \E r \in {parse_value(a.p)} :
             IF r.p.panic THEN Unwind(r.p)
             ELSE IF r.val = NoValue THEN SyntaxError(r.p)
             ELSE /\ DeliverPair(ident.token, r.val)
                  /\ pos' = r.p.pos /\ line' = r.p.line

ParseStep ==
    /\ status = "running"
    /\ nev' = nev + 1
    /\ UNCHANGED <<src, src_end, doc, decoding, looked>>
    /\ \E p \in {skip_whitespaces_and_comments(
                   [pos |-> pos, line |-> line, panic |-> FALSE])} :
         IF p.panic THEN Unwind(p)
         ELSE IF eos(p)
         THEN /\ status' = IF to_err(p).some THEN "IOError" ELSE "Ok"
              /\ ev' = [op |-> "eof"]
              /\ pos' = p.pos /\ line' = p.line
              /\ UNCHANGED <<root, current_path, opened, appends>>
         ELSE IF ch(p) = Some("[") THEN ParseHeader(p)
         ELSE ParseAssignment(p)

\* Parser::new and parse_from_buffer on the document text
InitParser(text) ==
    /\ InitBuilder
    /\ DecoderIdle
    /\ LookupIdle
    /\ src = text
    /\ src_end = "EndOfFile"
    /\ pos = 1
    /\ line = IF text # "" /\ Ch(text, 1) = "\n" THEN 2 ELSE 1

\* All strings of at most n characters of alphabet.
RECURSIVE Runs(_, _)
Runs(alphabet, n) ==
    IF n = 0 THEN {""}
    ELSE LET r == Runs(alphabet, n - 1)
         IN  r \cup {x \o a : x \in r, a \in alphabet}

(***************************************************************************)
(* Documents key = D and key = -D                                          *)
(***************************************************************************)
MaxDigits == 3

\* 2^64 - 1 and its neighbours, and the limb boundaries of the model
LongRuns ==
    {"18446744073709551615", "18446744073709551616", "0018446744073709551615",
     "18446744073709551606", "9223372036854775808", "99999999999999999999",
     "65535", "65536", "4294967296", "281474976710656", "100000000000000000000"}

DigitRuns == (Runs({"0", "1", "9"}, MaxDigits) \ {""}) \cup LongRuns

IntDocs ==
    {[family |-> "int", sign |-> sg, digits |-> d, follow |-> f] :
        sg \in {"", "-"}, d \in DigitRuns, f \in {"", "\n", " # c\n", "\r\n"}}

IntText(d) == "key = " \o d.sign \o d.digits \o d.follow

InitInt == \E d \in IntDocs : doc = d /\ InitParser(IntText(d))

SpecInt == InitInt /\ [][ParseStep]_vars

(***************************************************************************)
(* Documents key = "..." and key = ["..."]: the text between the quotes is *)
(* a sequence of items, each with the characters it denotes (ok) or none.  *)
(***************************************************************************)
MaxItems == 2

Item(txt, dec) == [txt |-> txt, ok |-> TRUE, dec |-> dec]

BadItem(txt) == [txt |-> txt, ok |-> FALSE, dec |-> <<>>]

PlainItems == {Item("x", <<120>>), Item(" ", <<32>>), Item("\t", <<9>>)}

EscapeItems ==
    {Item("\\b", <<8>>), Item("\\t", <<9>>), Item("\\n", <<10>>),
     Item("\\f", <<12>>), Item("\\r", <<13>>), Item("\\\"", <<34>>),
     Item("\\/", <<47>>), Item("\\\\", <<92>>)}

UnicodeItems ==
    {Item("\\u0041", <<65>>), Item("\\u00eB", <<235>>), Item("\\uFFFF", <<65535>>)}

BadItems ==
    {BadItem("\r"), BadItem("\n"), BadItem("\f"), BadItem(BS),
     BadItem("\\x"), BadItem("\\u12"), BadItem("\\uD800")}

Items == PlainItems \cup EscapeItems \cup UnicodeItems \cup BadItems

RECURSIVE ItemSeqs(_)
ItemSeqs(n) ==
    IF n = 0 THEN {<<>>}
    ELSE LET r == ItemSeqs(n - 1)
         IN  r \cup {Append(x, i) : x \in r, i \in Items}

RECURSIVE ItemsText(_)
ItemsText(items) ==
    IF items = <<>> THEN "" ELSE items[1].txt \o ItemsText(Tail(items))

StringDocs ==
    {[family |-> "string", items |-> is, closed |-> c, in_array |-> a] :
        is \in ItemSeqs(MaxItems), c \in BOOLEAN, a \in BOOLEAN}

StringText(d) ==
    "key = " \o (IF d.in_array THEN "[" ELSE "")
             \o "\"" \o ItemsText(d.items) \o (IF d.closed THEN "\"" ELSE "")
             \o (IF d.in_array THEN "]" ELSE "")

InitString == \E d \in StringDocs : doc = d /\ InitParser(StringText(d))

SpecString == InitString /\ [][ParseStep]_vars

(***************************************************************************)
(* Documents key = L and key = [L] for datetime-like literals L: every     *)
(* combination of boundary field values, and a well-formed literal with    *)
(* one part malformed or cut short.                                        *)
(***************************************************************************)
Years == {"0000", "1979", "9999"}

Months == {"00", "01", "12", "13"}

Days == {"00", "01", "31", "32"}

Hours == {"00", "24", "25"}

Minutes == {"00", "60", "61"}

Seconds == {"00", "60", "61"}

FieldLits ==
    {y \o "-" \o mo \o "-" \o d \o "T" \o h \o ":" \o mi \o ":" \o sec :
        y \in Years, mo \in Months, d \in Days,
        h \in Hours, mi \in Minutes, sec \in Seconds}

BaseParts == <<"1979", "-", "05", "-", "27", "T", "07", ":", "32", ":", "00", "Z">>

\* What a part may be replaced with: digit runs of another length for the
\* fields, another or no character for the separators.
Malformed(i) ==
    IF i = 1 THEN {"979", "19790", "1"}
    ELSE IF i % 2 = 1 THEN {"", "5", "123"}
    ELSE IF BaseParts[i] = "T" THEN {"", " ", "t"}
    ELSE IF BaseParts[i] = "Z" THEN {"", "z"}
    ELSE {"", "/"}

RECURSIVE Concat(_)
Concat(parts) == IF parts = <<>> THEN "" ELSE parts[1] \o Concat(Tail(parts))

MalformedLits ==
    {Concat([BaseParts EXCEPT ![i] = m]) : <<i, m>> \in
        UNION {{<<j, x>> : x \in Malformed(j)} : j \in 1..Len(BaseParts)}}

CutLits == {SubSeq(Concat(BaseParts), 1, n) : n \in 1..(Len(Concat(BaseParts)) - 1)}

DatetimeLits == {f \o "Z" : f \in FieldLits} \cup MalformedLits \cup CutLits

DatetimeDocs ==
    {[family |-> "datetime", lit |-> l, in_array |-> a] :
        l \in DatetimeLits, a \in BOOLEAN}

DatetimeText(d) == "key = " \o (IF d.in_array THEN "[" \o d.lit \o "]" ELSE d.lit)

InitDatetime == \E d \in DatetimeDocs : doc = d /\ InitParser(DatetimeText(d))

SpecDatetime == InitDatetime /\ [][ParseStep]_vars

(***************************************************************************)
(* Documents x = A for array literals A: flat ones over literals of every  *)
(* class, and arrays of arrays.  A literal is kept as its syntax tree.     *)
(***************************************************************************)
MaxArrayLen == 3

MaxNestLen == 2

Atom(txt, cls) == [k |-> "atom", txt |-> txt, cls |-> cls]

List(elems) == [k |-> "list", elems |-> elems]

Atoms ==
    {Atom("1", "integer"), Atom("-3", "integer"), Atom("1.5", "float"),
     Atom("\"a\"", "string"), Atom("true", "boolean"),
     Atom("1979-05-27T07:32:00Z", "datetime")}

NestAtoms == {Atom("1", "integer"), Atom("\"a\"", "string")}

\* The sequences of at most n members of set.
RECURSIVE SeqsUpTo(_, _)
SeqsUpTo(set, n) ==
    IF n = 0 THEN {<<>>}
    ELSE LET r == SeqsUpTo(set, n - 1)
         IN  r \cup {Append(x, e) : x \in r, e \in set}

FlatLists == {List(es) : es \in SeqsUpTo(Atoms, MaxArrayLen)}

NestedLists ==
    LET inner == {List(es) : es \in SeqsUpTo(NestAtoms, MaxNestLen)}
    IN  {List(es) : es \in SeqsUpTo(inner \cup NestAtoms, MaxNestLen) \ {<<>>}}

RECURSIVE Render(_)
RECURSIVE RenderElems(_)
RenderElems(elems) ==
    IF elems = <<>> THEN ""
    ELSE IF Len(elems) = 1 THEN Render(elems[1])
    ELSE Render(elems[1]) \o ", " \o RenderElems(Tail(elems))

Render(node) ==
    IF node.k = "atom" THEN node.txt ELSE "[" \o RenderElems(node.elems) \o "]"

\* rest: what the document goes on with after the literal
ArrayDocs ==
    {[family |-> "array", ast |-> a, rest |-> r] :
        a \in FlatLists \cup NestedLists, r \in {"", "\n", "=2"}}

ArrayText(d) == "x = " \o Render(d.ast) \o d.rest

InitArray == \E d \in ArrayDocs : doc = d /\ InitParser(ArrayText(d))

SpecArray == InitArray /\ [][ParseStep]_vars

(***************************************************************************)
(* Documents x = [ ... ] with elements that are no values                  *)
(***************************************************************************)
\* Elements: an integer, two malformed literals, an array and an array of
\* an integer and a string.
ElementNodes ==
    {Atom("1", "integer"), Atom("t", "malformed"), Atom("-", "malformed"),
     List(<<Atom("2", "integer")>>),
     List(<<Atom("1", "integer"), Atom("\"a\"", "string")>>)}

ElementDocs ==
    {[family |-> "element", ast |-> List(es), rest |-> r] :
        es \in SeqsUpTo(ElementNodes, MaxArrayLen) \ {<<>>}, r \in {"", "\n", "=2"}}

InitElement == \E d \in ElementDocs : doc = d /\ InitParser(ArrayText(d))

SpecElement == InitElement /\ [][ParseStep]_vars

(***************************************************************************)
(* Documents given by their tokens, with whitespace or a comment put       *)
(* between two of them                                                     *)
(***************************************************************************)
TokenDocs ==
    {<<"[t]", "key", "=", "\"s\"", "arr", "=", "[", "1", ",", "2", "]",
       "[[u]]", "x", "=", "true">>,
     <<"a", "=", "-3", "b", "=", "1.5", "c", "=", "1979-05-27T07:32:00Z",
       "d", "=", "[", "[", "1", "]", ",", "[", "]", "]">>}

Trivia == {"", " ", "\t", "\r", "\n", "\r\n", "# c\n", " \t# c\r\n "}

\* gap: the number of tokens before the trivia
TriviaDocs ==
    UNION {{[family |-> "trivia", tokens |-> b, gap |-> g, trivia |-> t] :
              g \in 0..Len(b), t \in Trivia} : b \in TokenDocs}

TriviaText(d) ==
    Concat(SubSeq(d.tokens, 1, d.gap)) \o d.trivia \o
    Concat(SubSeq(d.tokens, d.gap + 1, Len(d.tokens)))

InitTrivia == \E d \in TriviaDocs : doc = d /\ InitParser(TriviaText(d))

SpecTrivia == InitTrivia /\ [][ParseStep]_vars

(***************************************************************************)
(* Documents with a section header that has an empty name or an empty      *)
(* segment, or is not closed                                               *)
(***************************************************************************)
\* What stands before the header, and the number of its statements.
Preludes ==
    {[text |-> "", n |-> 0], [text |-> "[a]\nx = 1\n", n |-> 2],
     [text |-> "[[a]]\nx = 1\n", n |-> 2], [text |-> "[a.b]\n", n |-> 1],
     [text |-> "a = 1\n", n |-> 1]}

EmptyNameHeaders == {"[]", "[[]]", "[\n]", "[[\t]]"}

EmptySegmentHeaders ==
    {"[a..b]", "[.a]", "[a.]", "[.]", "[a.b.]", "[a.b..c]", "[c..d]",
     "[[a..b]]", "[[.a]]", "[[a.]]", "[[a.b.]]"}

UnclosedHeaders == {"[[a]", "[[a", "[[a]\n]", "[[a.b] ]", "[[c]x]", "[["}

HeaderDocs ==
    {[family |-> "header", before |-> pre, header |-> h, rest |-> r] :
        pre \in Preludes,
        h \in EmptyNameHeaders \cup EmptySegmentHeaders \cup UnclosedHeaders,
        r \in {"", "\n", "\ny = 2\n"}}

HeaderText(d) == d.before.text \o d.header \o d.rest

InitHeader == \E d \in HeaderDocs : doc = d /\ InitParser(HeaderText(d))

SpecHeader == InitHeader /\ [][ParseStep]_vars

(***************************************************************************)
(* Documents with a statement that fails and statements after it           *)
(***************************************************************************)
\* text: statements that succeed (ok of them) and then one that fails; by:
\* what fails in it.
Failures ==
    {[text |-> "k = 1\nk = 2", ok |-> 1, by |-> "pair"],
     [text |-> "[t.k]\n[t]\nk = 1", ok |-> 2, by |-> "pair"],
     [text |-> "[t]\n[t]", ok |-> 1, by |-> "section"],
     [text |-> "[[u]]\n[u]", ok |-> 1, by |-> "section"],
     [text |-> "[p]\nk = 1\n[p.k]", ok |-> 2, by |-> "section"],
     [text |-> "[]", ok |-> 0, by |-> "section"],
     [text |-> "k 1", ok |-> 0, by |-> "grammar"],
     [text |-> "k = @", ok |-> 0, by |-> "grammar"],
     [text |-> "k = tru", ok |-> 0, by |-> "grammar"],
     [text |-> "k = [1, \"s\"]", ok |-> 0, by |-> "grammar"],
     [text |-> "[[t]", ok |-> 0, by |-> "grammar"],
     [text |-> "k = [1, t]", ok |-> 0, by |-> "element"],
     [text |-> "k = [[1, \"s\"]]", ok |-> 0, by |-> "element"]}

FailDocs ==
    {[family |-> "fail", before |-> pre, failure |-> f, rest |-> r] :
        pre \in {[text |-> "", n |-> 0], [text |-> "[a]\nx = 1\n", n |-> 2],
                 [text |-> "# c\n\nb = 1\n", n |-> 1]},
        f \in Failures,
        r \in {"", "\n", "\ny = 2\n", "\n[z]\nw = 1\n"}}

FailText(d) == d.before.text \o d.failure.text \o d.rest

InitFail == \E d \in FailDocs : doc = d /\ InitParser(FailText(d))

SpecFail == InitFail /\ [][ParseStep]_vars

(***************************************************************************)
(* Documents with one assignment, by its identifier                        *)
(***************************************************************************)
Identifiers == {"", "k", "a.b", ".", "a.", ".b", "a.b.c"}

KeyDocs ==
    {[family |-> "key", before |-> pre, key |-> k, assign |-> a, value |-> v,
      rest |-> r] :
        pre \in {"", "[a]\n", "[[t]]\n", "[a.b]\nc = 2\n"},
        k \in Identifiers, a \in {"=", " = ", "\t="},
        v \in {"1", "\"s\"", "[1]"}, r \in {"", "\n", "\n[z]\n"}}

KeyText(d) == d.before \o d.key \o d.assign \o d.value \o d.rest

InitKey == \E d \in KeyDocs : doc = d /\ InitParser(KeyText(d))

SpecKey == InitKey /\ [][ParseStep]_vars

(***************************************************************************)
(* The builder under every sequence of events, and the parser on the       *)
(* documents with failures, integers and early ends                        *)
(***************************************************************************)
InitAny == Init \/ InitFail \/ InitInt \/ InitDatetime

NextAny ==
    \/ doc.family = "events" /\ Next
    \/ doc.family # "events" /\ ParseStep

SpecAny == InitAny /\ [][NextAny]_vars

(***************************************************************************)
(* Decoder                                                                 *)
(***************************************************************************)
\* enum Error (IOError is never made by the Decoder)
ParseError == [e |-> "ParseError"]

ParseErrorInField(name) == [e |-> "ParseErrorInField", name |-> name]

IOError(kind) == [e |-> "IOError", kind |-> kind]

\* DecodeResult<T>
Ok(v) == [ok |-> TRUE, v |-> v]

Err(e) == [ok |-> FALSE, err |-> e]

\* enum State
No == [k |-> "No"]

Arr(items) == [k |-> "Arr", items |-> items]

Tab(hm) == [k |-> "Tab", hm |-> hm]

Map(entries) == [k |-> "Map", entries |-> entries]

Decoder_new(value) == [value |-> value, state |-> No]

Decoder_new_state(state) == [value |-> NoValue, state |-> state]

\* x < 2^b for a u64 x
LtPow2(x, b) ==
    LET k == (b \div 16) + 1
        r == b % 16
    IN  /\ \A i \in 1..4 : i > k => x[i] = 0
        /\ k <= 4 => x[k] < 2^r

\* x = 2^b for a u64 x, b < 64
IsPow2(x, b) == x = [i \in 1..4 |-> IF i = (b \div 16) + 1 THEN 2^(b % 16) ELSE 0]

\* The width of uint and int: the pointer width of the build.
PointerBits == 64

\* ToPrimitive for u64: to_u8, to_u16, to_u32, to_uint
to_unsigned(x, bits) == IF LtPow2(x, bits) THEN Some(x) ELSE None

\* u64.to_i64(): an i64 is kept as its sign and magnitude
to_i64(x) == IF LtPow2(x, 63) THEN Some([neg |-> FALSE, mag |-> x]) ELSE None

\* -v for a v that to_i64 returned
Negated(v) == [neg |-> v.mag # <<0, 0, 0, 0>>, mag |-> v.mag]

\* ToPrimitive for i64: to_i8, to_i16, to_i32, to_int
to_signed(v, bits) ==
    IF LtPow2(v.mag, bits - 1) \/ (v.neg /\ bits < 64 /\ IsPow2(v.mag, bits - 1))
    THEN Some(v) ELSE None

read_u64(d) == IF d.value.t = "PosInt" THEN Ok(d.value.n) ELSE Err(ParseError)

\* read_uint, read_u32, read_u16, read_u8
read_unsigned(d, bits) ==
    Bind(read_u64(d), LAMBDA r :
      IF ~r.ok THEN r
      ELSE IF to_unsigned(r.v, bits).some THEN Ok(r.v) ELSE Err(ParseError))

read_i64(d) ==
    CASE d.value.t = "PosInt" ->
            Bind(to_i64(d.value.n), LAMBDA v :
              IF v.some THEN Ok(v.v) ELSE Err(ParseError))
      [] d.value.t = "NegInt" ->
            Bind(to_i64(d.value.n), LAMBDA v :
              IF v.some THEN Ok(Negated(v.v)) ELSE Err(ParseError))
      [] OTHER -> Err(ParseError)

\* read_int, read_i32, read_i16, read_i8
read_signed(d, bits) ==
    Bind(read_i64(d), LAMBDA r :
      IF ~r.ok THEN r
      ELSE IF to_signed(r.v, bits).some THEN Ok(r.v) ELSE Err(ParseError))

read_bool(d) == IF d.value.t = "Boolean" THEN Ok(d.value.b) ELSE Err(ParseError)

read_f64(d) == IF d.value.t = "Float" THEN Ok(d.value) ELSE Err(ParseError)

read_str(d) == IF d.value.t = "String" THEN Ok(d.value.s) ELSE Err(ParseError)

\* The number of bytes of a character in a String (UTF-8).
Utf8Len(c) == IF c < 128 THEN 1 ELSE IF c < 2048 THEN 2 ELSE IF c < LimbBase THEN 3 ELSE 4

RECURSIVE StrLen(_)
StrLen(s) == IF s = <<>> THEN 0 ELSE Utf8Len(s[1]) + StrLen(Tail(s))

\* s.len() counts bytes; s.as_slice()[0] is the first byte
read_char(d) ==
    Bind(read_str(d), LAMBDA s :
      IF ~s.ok THEN s
      ELSE IF StrLen(s.v) # 1 THEN Err(ParseError) ELSE Ok(s.v[1]))

(***************************************************************************)
(* Decodable: the target types and what their decode asks of the Decoder.  *)
(***************************************************************************)
Prim(name) == [k |-> "prim", name |-> name]

OptionOf(ty) == [k |-> "option", of |-> ty]

VecOf(ty) == [k |-> "vec", of |-> ty]

HashMapOf(ty) == [k |-> "hashmap", of |-> ty]

Field(name, ty) == [name |-> name, ty |-> ty]

StructOf(fields) == [k |-> "struct", fields |-> fields]

\* A Decodable written by hand: its decode returns res.
Closure(res) == [k |-> "closure", res |-> res]

UnsignedBits == [u8 |-> 8, u16 |-> 16, u32 |-> 32, u64 |-> 64, uint |-> PointerBits]

SignedBits == [i8 |-> 8, i16 |-> 16, i32 |-> 32, i64 |-> 64, int |-> PointerBits]

\* Decodable::decode of a primitive type: the read_ method of its name
decode_prim(name, d) ==
    CASE name = "u64"  -> read_u64(d)
      [] name = "i64"  -> read_i64(d)
      [] name \in DOMAIN UnsignedBits -> read_unsigned(d, UnsignedBits[name])
      [] name \in DOMAIN SignedBits   -> read_signed(d, SignedBits[name])
      [] name = "bool" -> read_bool(d)
      [] name = "f64"  -> read_f64(d)
      [] name = "char" -> read_char(d)
      [] name = "str"  -> read_str(d)

RECURSIVE decode(_, _)

\* read_option that takes every value for a present one
read_option_always_present(d, ty) ==
    Bind(decode(ty, d), LAMBDA r : IF r.ok THEN Ok(Some(r.v)) ELSE r)

\* read_option with the closure of Option<T>: Some of the inner decode, or None
read_option(d, ty) ==
    IF d.value = NoValue THEN Ok(None)
    ELSE Bind(decode(ty, d), LAMBDA r : IF r.ok THEN Ok(Some(r.v)) ELSE r)

\* read_seq_elt that takes the elements from the back of the iterator
read_seq_elt_from_back(d, ty) ==
    IF d.state.k # "Arr" THEN [res |-> Err(ParseError), d |-> d]
    ELSE IF d.state.items = <<>> THEN [res |-> Err([e |-> "panic"]), d |-> d]
    ELSE [res |-> decode(ty, Decoder_new(d.state.items[Len(d.state.items)])),
          d   |-> [d EXCEPT !.state =
                     Arr(SubSeq(d.state.items, 1, Len(d.state.items) - 1))]]

\* res is what the closure returned, d the decoder afterwards
read_seq_elt(d, ty) ==
    IF d.state.k # "Arr" THEN [res |-> Err(ParseError), d |-> d]
    ELSE IF d.state.items = <<>> THEN [res |-> Err([e |-> "panic"]), d |-> d]
    ELSE [res |-> decode(ty, Decoder_new(Head(d.state.items))),
          d   |-> [d EXCEPT !.state = Arr(Tail(d.state.items))]]

\* The closure of Vec<T>: for i in range(0, len), push read_seq_elt(i, decode)
RECURSIVE decode_elts(_, _, _, _)
decode_elts(ty, d, len, acc) ==
    IF Len(acc) = len THEN Ok(acc)
    ELSE Bind(read_seq_elt(d, ty), LAMBDA e :
           IF e.res.ok THEN decode_elts(ty, e.d, len, Append(acc, e.res.v))
           ELSE e.res)

read_seq(d, ty) ==
    IF d.value.t \in {"Array", "TableArray"}
    THEN decode_elts(ty, Decoder_new_state(Arr(d.value.elems)), Len(d.value.elems), <<>>)
    ELSE Err(ParseError)

\* read_struct_field that finds the entry and leaves it in the table
read_struct_field_keeping(d, name, ty) ==
    IF d.state.k # "Tab" THEN [res |-> Err(ParseError), d |-> d]
    ELSE Bind(IF name \in DOMAIN d.state.hm
              THEN decode(ty, Decoder_new(d.state.hm[name]))
              ELSE decode(ty, Decoder_new(NoValue)), LAMBDA res :
           [res |-> IF ~res.ok /\ res.err = ParseError
                    THEN Err(ParseErrorInField(name)) ELSE res,
            d   |-> d])

\* read_struct_field that tags every error of the closure with its name
read_struct_field_retagging(d, name, ty) ==
    IF d.state.k # "Tab" THEN [res |-> Err(ParseError), d |-> d]
    ELSE Bind(IF name \in DOMAIN d.state.hm
              THEN decode(ty, Decoder_new(d.state.hm[name]))
              ELSE decode(ty, Decoder_new(NoValue)), LAMBDA res :
           [res |-> IF ~res.ok THEN Err(ParseErrorInField(name)) ELSE res,
            d   |-> [d EXCEPT !.state =
                       Tab([q \in DOMAIN d.state.hm \ {name} |-> d.state.hm[q]])]])

\* read_struct_field without the second match: the closure's error as it is
read_struct_field_untagged(d, name, ty) ==
    IF d.state.k # "Tab" THEN [res |-> Err(ParseError), d |-> d]
    ELSE Bind(IF name \in DOMAIN d.state.hm
              THEN decode(ty, Decoder_new(d.state.hm[name]))
              ELSE decode(ty, Decoder_new(NoValue)), LAMBDA res :
           [res |-> res,
            d   |-> [d EXCEPT !.state =
                       Tab([q \in DOMAIN d.state.hm \ {name} |-> d.state.hm[q]])]])

read_struct_field(d, name, ty) ==
    IF d.state.k # "Tab" THEN [res |-> Err(ParseError), d |-> d]
    ELSE Bind(IF name \in DOMAIN d.state.hm
              THEN decode(ty, Decoder_new(d.state.hm[name]))
              ELSE decode(ty, Decoder_new(NoValue)), LAMBDA res :
           [res |-> IF ~res.ok /\ res.err = ParseError
                    THEN Err(ParseErrorInField(name)) ELSE res,
            d   |-> [d EXCEPT !.state =
                       Tab([q \in DOMAIN d.state.hm \ {name} |-> d.state.hm[q]])]])

\* The closure of a struct: its fields in turn, the first error ends it
RECURSIVE decode_fields(_, _, _)
decode_fields(fields, d, acc) ==
    IF Len(acc) = Len(fields) THEN Ok(acc)
    ELSE LET f == fields[Len(acc) + 1] IN
         Bind(read_struct_field(d, f.name, f.ty), LAMBDA r :
           IF r.res.ok
           THEN decode_fields(fields, r.d, Append(acc, [name |-> f.name, v |-> r.res.v]))
           ELSE r.res)

read_struct(d, fields) ==
    IF d.value.t = "Table"
    THEN decode_fields(fields, Decoder_new_state(Tab(d.value.map)), <<>>)
    ELSE Err(ParseError)

\* hm.move_iter(): the entries in the order of the hash map
move_iter(hm) ==
    CHOOSE es \in [1..Cardinality(DOMAIN hm) -> DOMAIN hm] :
        \A q \in DOMAIN hm : \E i \in DOMAIN es : es[i] = q

\* read_map_elt_key and read_map_elt_val for the next entry: the key is read
\* as a String from self.value, then the entry's value is decoded from it
RECURSIVE decode_entries(_, _, _, _)
decode_entries(ty, hm, keys, acc) ==
    IF keys = <<>> THEN Ok(acc)
    ELSE Bind(decode(ty, Decoder_new(hm[Head(keys)])), LAMBDA r :
           IF r.ok
           THEN decode_entries(ty, hm, Tail(keys),
                  [q \in DOMAIN acc \cup {Head(keys)} |->
                     IF q = Head(keys) THEN r.v ELSE acc[q]])
           ELSE r)

read_map(d, ty) ==
    IF d.value.t = "Table"
    THEN decode_entries(ty, d.value.map, move_iter(d.value.map), EmptyMap)
    ELSE Err(ParseError)

decode(ty, d) ==
    CASE ty.k = "prim"    -> decode_prim(ty.name, d)
      [] ty.k = "option"  -> read_option(d, ty.of)
      [] ty.k = "vec"     -> read_seq(d, ty.of)
      [] ty.k = "struct"  -> read_struct(d, ty.fields)
      [] ty.k = "hashmap" -> read_map(d, ty.of)
      [] ty.k = "closure" -> ty.res

from_toml(ty, value) == decode(ty, Decoder_new(value))

(***************************************************************************)
(* from_toml on a value and a target type                                  *)
(***************************************************************************)
\* The characters of a literal, as a decoded String holds them.
Codes(s) == [i \in 1..Len(s) |-> Ord(Ch(s, i))]

Pow2(b) == [i \in 1..4 |-> IF i = (b \div 16) + 1 THEN 2^(b % 16) ELSE 0]

\* 2^b - 1
Ones(b) ==
    [i \in 1..4 |-> IF i < (b \div 16) + 1 THEN LimbBase - 1
                    ELSE IF i = (b \div 16) + 1 THEN 2^(b % 16) - 1 ELSE 0]

\* 2^b + 1, b >= 1
Pow2Plus1(b) == [Pow2(b) EXCEPT ![1] = @ + 1]

\* The integers at and around the ends of every width's range.
Magnitudes ==
    {U64(0), U64(1), Ones(64)} \cup
    UNION {{Ones(b), Pow2(b), Pow2Plus1(b)} : b \in {7, 8, 15, 16, 31, 32, 63}}

IntValues == {PosInt(m) : m \in Magnitudes} \cup {NegInt(m) : m \in Magnitudes}

IntTypes == {Prim(n) : n \in DOMAIN UnsignedBits \cup DOMAIN SignedBits}

Product == StructOf(<<Field("id", Prim("uint")), Field("name", Prim("str"))>>)

Config ==
    StructOf(<<Field("host", Prim("str")), Field("port", OptionOf(Prim("uint"))),
               Field("ids", VecOf(Prim("uint"))), Field("products", VecOf(Product))>>)

ProductValue(id, name) ==
    Table(FALSE, [q \in {"id", "name"} |->
                    IF q = "id" THEN PosInt(U64(id)) ELSE String(Codes(name))])

\* The tree of the decoder example's document.
ConfigValue ==
    Table(FALSE,
      [q \in {"host", "ids", "products"} |->
         CASE q = "host" -> String(Codes("localhost"))
           [] q = "ids"  -> Array(<<PosInt(U64(1)), PosInt(U64(10)), PosInt(U64(20))>>)
           [] q = "products" ->
                TableArray(<<ProductValue(1, "Product 1"), ProductValue(2, "Product 2")>>)])

StoredValues ==
    {PosInt(U64(7)), NegInt(U64(7)), String(Codes("h")), Boolean(TRUE),
     Float(1, U64(1), "5"), Datetime(1979, 5, 27, 7, 32, 0),
     Array(<<>>), Array(<<PosInt(U64(1)), PosInt(U64(2)), PosInt(U64(3))>>),
     Array(<<String(Codes("a")), String(Codes("b"))>>),
     Array(<<PosInt(U64(1)), NegInt(U64(2))>>),
     ProductValue(1, "p"),
     Table(FALSE, [q \in {"id"} |-> PosInt(U64(1))]),
     TableArray(<<ProductValue(1, "p"), ProductValue(2, "q")>>),
     TableArray(<<ProductValue(1, "p"), Table(FALSE, [q \in {"id"} |-> Boolean(TRUE)])>>)}

FieldTypes ==
    {Prim("uint"), Prim("i8"), Prim("str"), Prim("char"), Prim("bool"), Prim("f64"),
     OptionOf(Prim("uint")), OptionOf(Prim("str")), OptionOf(Product),
     VecOf(Prim("uint")), VecOf(Prim("str")), VecOf(Product),
     Product, HashMapOf(Prim("uint"))}

\* A table with host and port, each absent or any stored value.
HostPortTables ==
    {Table(FALSE, [q \in ks |-> IF q = "host" THEN h ELSE pt]) :
        ks \in SUBSET {"host", "port"}, h \in StoredValues, pt \in StoredValues}

HostPortTypes ==
    {StructOf(<<Field("host", t1), Field("port", t2)>>) :
        t1 \in FieldTypes, t2 \in FieldTypes}

\* A Decodable that asks for host twice, and one that asks for host alone.
RepeatTypes ==
    {StructOf(<<Field("host", t1), Field("host", t2)>>) :
        t1 \in FieldTypes, t2 \in FieldTypes}
    \cup {StructOf(<<Field("host", t1)>>) : t1 \in FieldTypes}

DecodeCases ==
    {[ty |-> t, value |-> v] : t \in IntTypes, v \in IntValues}
    \cup {[ty |-> t, value |-> v] :
            t \in FieldTypes \cup {Config}, v \in StoredValues \cup {NoValue, ConfigValue}}
    \cup {[ty |-> t, value |-> v] : t \in HostPortTypes, v \in HostPortTables}

InitDecode ==
    /\ InitBuilder
    /\ ScannerIdle
    /\ LookupIdle
    /\ \E c \in DecodeCases : decoding = [k |-> "call", ty |-> c.ty, value |-> c.value]

FromToml ==
    /\ decoding.k = "call"
    /\ decoding' = [k |-> "done", ty |-> decoding.ty, value |-> decoding.value,
                    res |-> from_toml(decoding.ty, decoding.value)]
    /\ UNCHANGED <<root, current_path, status, ev, nev, opened, appends, scanner, looked>>

SpecDecode == InitDecode /\ [][FromToml]_vars

RepeatCases ==
    {[ty |-> t, value |-> v] :
        t \in RepeatTypes, v \in HostPortTables \cup {NoValue, String(Codes("h"))}}

InitRepeat ==
    /\ InitBuilder
    /\ ScannerIdle
    /\ LookupIdle
    /\ \E c \in RepeatCases : decoding = [k |-> "call", ty |-> c.ty, value |-> c.value]

SpecRepeat == InitRepeat /\ [][FromToml]_vars

\* Records in records: under a field, in a sequence under a field, and two
\* fields deep; and fields whose decode ends as it is told to.
Wrapper == StructOf(<<Field("item", Product)>>)

NestedFieldTypes ==
    {Product, OptionOf(Product), VecOf(Product), Wrapper, VecOf(Wrapper),
     StructOf(<<Field("item", VecOf(Product))>>)}
    \cup {Closure(r) : r \in {Ok(U64(0)), Err(ParseError), Err(ParseErrorInField("deep")),
                             Err(IOError("TimedOut")), Err(IOError("EndOfFile"))}}

NestedTypes ==
    {StructOf(<<Field("host", t1), Field("port", t2)>>) :
        t1 \in NestedFieldTypes \cup {Prim("str")}, t2 \in NestedFieldTypes}

WrapperValue(v) == Table(FALSE, [q \in {"item"} |-> v])

ProductValues ==
    {ProductValue(1, "p"), Table(FALSE, [q \in {"id"} |-> PosInt(U64(1))]),
     Table(FALSE, [q \in {"id", "name"} |->
                     IF q = "id" THEN Boolean(TRUE) ELSE PosInt(U64(1))]),
     String(Codes("h"))}

NestedValues ==
    ProductValues
    \cup {WrapperValue(v) : v \in ProductValues}
    \cup {TableArray(<<ProductValue(1, "p"), v>>) : v \in ProductValues \ {String(Codes("h"))}}
    \cup {WrapperValue(TableArray(<<ProductValue(1, "p"), ProductValue(2, "q")>>)),
          WrapperValue(TableArray(<<Table(FALSE, [q \in {"name"} |-> String(Codes("p"))])>>)),
          TableArray(<<WrapperValue(ProductValue(1, "p")),
                       WrapperValue(Table(FALSE, [q \in {"id"} |-> PosInt(U64(1))]))>>)}

NestedCases ==
    {[ty |-> t, value |-> Table(FALSE, [q \in ks |-> IF q = "host" THEN h ELSE pt])] :
        t \in NestedTypes, ks \in SUBSET {"host", "port"},
        h \in NestedValues, pt \in NestedValues}

InitNested ==
    /\ InitBuilder
    /\ ScannerIdle
    /\ LookupIdle
    /\ \E c \in NestedCases : decoding = [k |-> "call", ty |-> c.ty, value |-> c.value]

SpecNested == InitNested /\ [][FromToml]_vars

(***************************************************************************)
(* Documents whose reader stops early: at the end of the file, or with     *)
(* another IoError                                                         *)
(***************************************************************************)
\* Parser::new on a reader that yields text and then answers read_char with
\* the error end
InitReader(text, end) ==
    /\ InitBuilder
    /\ DecoderIdle
    /\ LookupIdle
    /\ src = text
    /\ src_end = end
    /\ pos = 1
    /\ line = IF text # "" /\ Ch(text, 1) = "\n" THEN 2 ELSE 1

BaseDocs ==
    {" \t\r\n# c\n[t]\nkey = \"s\"\narr = [[1], [2]] # d\n[[u]]\nx = true\n",
     "\na = 1979-05-27T07:32:00Z\nb = -1.5\n"}

IoErrorKinds == {"EndOfFile", "OtherIoError", "TimedOut"}

CutDocs ==
    UNION {{[family |-> "cut", base |-> b, cut |-> n, end |-> e] :
              n \in 0..Len(b), e \in IoErrorKinds} : b \in BaseDocs}

\* The reader yields the first cut characters of base.
CutText(d) == SubSeq(d.base, 1, d.cut)

InitCut == \E d \in CutDocs : doc = d /\ InitReader(CutText(d), d.end)

SpecCut == InitCut /\ [][ParseStep]_vars

\* Parser::parse is one sequential loop: as long as it has not returned it
\* takes its next turn.
SpecCutLive == InitCut /\ [][ParseStep]_vars /\ WF_vars(ParseStep)

(***************************************************************************)
(* Lookups on a parsed tree                                                *)
(***************************************************************************)
\* The trees of the two token documents.
TokenTree(tokens) ==
    IF tokens[1] = "[t]"
    THEN [q \in {"t", "u"} |->
            IF q = "t"
            THEN Table(TRUE,
                   [r \in {"key", "arr"} |->
                      IF r = "key" THEN String(Codes("s"))
                      ELSE Array(<<PosInt(U64(1)), PosInt(U64(2))>>)])
            ELSE TableArray(<<Table(FALSE, [r \in {"x"} |-> Boolean(TRUE)])>>)]
    ELSE [q \in {"a", "b", "c", "d"} |->
            CASE q = "a" -> NegInt(U64(3))
              [] q = "b" -> Float(1, U64(1), "5")
              [] q = "c" -> Datetime(1979, 5, 27, 7, 32, 0)
              [] q = "d" -> Array(<<Array(<<PosInt(U64(1))>>), Array(<<>>)>>)]

\* The tree parse_from_buffer returns on Ok.
Tree(ht) == Table(FALSE, ht)

MaxLookups == 2

\* The trees of the token documents and of the decoder example's document.
LookupRoots == {TokenTree(t) : t \in TokenDocs} \cup {ConfigValue.map}

LookupPaths ==
    {"t", "t.key", "t.arr", "t.arr.0", "t.key.z", "u.0", "u.0.x", "u.1", "u.x",
     "d.0", "products.1.name", "products.2", "ids.1", "host", "0", "", "t..key"}

LookupElms == {Key("t"), Key("u"), Key("products"), Key("zz"), Idx(0)}

LookupElts ==
    {<<>>, <<Key("u"), Idx(0), Key("x")>>, <<Key("t"), Key("arr"), Idx(0)>>,
     <<Key("products"), Idx(1), Key("name")>>, <<Key("u"), Idx(1)>>,
     <<Key("t"), Key("key"), Key("z")>>}

\* Variant: the call moves the entry it found out of the top-level table.
CalledTaking(value, res) ==
    [res  |-> res,
     self |-> IF res.some
              THEN [value EXCEPT !.map =
                      [q \in {k \in DOMAIN value.map : value.map[k] # res.v} |->
                         value.map[q]]]
              ELSE value]

\* A call on &self: its result, and the receiver after the call, which the
\* shared borrow leaves as it was.
Called(value, res) == [res |-> res, self |-> value]

\* A parse has returned Ok with the tree.
InitLookup ==
    /\ ScannerIdle /\ DecoderIdle /\ LookupIdle
    /\ \E r \in LookupRoots : root = r
    /\ status = "Ok"
    /\ current_path = <<>>
    /\ ev = [op |-> "eof"]
    /\ nev = 0
    /\ opened = {}
    /\ appends = <<>>

\* The call is made on the tree, logged, and leaves every other part alone.
Call(op, arg, c) ==
    /\ Len(looked) < MaxLookups
    /\ looked' = Append(looked, [op |-> op, arg |-> arg, res |-> c.res])
    /\ root' = c.self.map
    /\ UNCHANGED <<current_path, status, ev, nev, opened, appends, scanner, decoding>>

Lookup ==
    \E path \in LookupPaths :
       Call("lookup", path, Called(Tree(root), lookup(Tree(root), path)))

LookupElm ==
    \E elm \in LookupElms :
       Call("lookup_elm", elm, Called(Tree(root), lookup_elm(Tree(root), elm)))

LookupPathElts ==
    \E elts \in LookupElts :
       Call("lookup_path", elts, Called(Tree(root), lookup_path_elts(Tree(root), elts)))

LookupVec ==
    \E path \in {"t.arr", "ids", "u"}, idx \in 0..3 :
       \E a \in {lookup(Tree(root), path)} :
          /\ a.some
          /\ Call("lookup_vec", <<path, idx>>, Called(Tree(root), lookup_vec(a.v, idx)))

NextLookup == Lookup \/ LookupElm \/ LookupPathElts \/ LookupVec

SpecLookup == InitLookup /\ [][NextLookup]_vars

(***************************************************************************)
(* Vocabulary of the properties                                            *)
(***************************************************************************)
\* The table a path denotes: from the map ht down the segments, entering the
\* last element of every TableArray on the way (and at the end).
RECURSIVE TableAt(_, _)
TableAt(ht, path) ==
    IF Len(path) = 0 THEN Some(ht)
    ELSE IF Head(path) \notin DOMAIN ht THEN None
    ELSE LET v == ht[Head(path)] IN
         CASE v.t = "Table" -> TableAt(v.map, Tail(path))
           [] v.t = "TableArray" /\ Len(v.elems) > 0 /\ v.elems[Len(v.elems)].t = "Table"
                -> TableAt(v.elems[Len(v.elems)].map, Tail(path))
           [] OTHER -> None

\* The value stored under the last segment of a non-empty path.
ValueAt(ht, path) ==
    LET parent == TableAt(ht, SubSeq(path, 1, Len(path) - 1))
        last   == path[Len(path)]
    IN  IF parent.some /\ last \in DOMAIN parent.v THEN Some(parent.v[last]) ELSE None

KindAt(ht, path) ==
    LET v == ValueAt(ht, path) IN IF v.some THEN v.v.t ELSE "absent"

RECURSIVE JoinDots(_)
JoinDots(path) ==
    IF Len(path) = 1 THEN path[1]
    ELSE path[1] \o "." \o JoinDots(Tail(path))

Prefixes(path) == {SubSeq(path, 1, k) : k \in 1..Len(path)}

HeaderPaths == {SplitDots(n) : n \in SectionNames \ {""}}

KnownPaths == UNION {Prefixes(p) : p \in HeaderPaths}

\* C1: a pair whose key is already in the table the current path denotes
\* (whatever that key holds) makes pair return false and the parse fail with
\* ParseError.
C1_DuplicateKeyFails ==
    [][ (/\ ev'.op = "pair"
         /\ TableAt(root, current_path).some
         /\ ev'.key \in DOMAIN TableAt(root, current_path).v)
        => (~ev'.ok /\ status' = "ParseError") ]_vars

C1_Witness ==
    /\ ev.op = "pair" /\ ~ev.ok /\ status = "ParseError"
    /\ current_path # <<>>
    /\ KindAt(root, current_path) = "TableArray"

\* C2: once a non-array header [P] has succeeded, every later non-array
\* header [P] for that path fails (a table is opened at most once).
C2_ReopenFails ==
    [][ (/\ ev'.op = "section" /\ ~ev'.is_array
         /\ SplitDots(ev'.name) \in opened)
        => ~ev'.ok ]_vars

DigitStr(n) == Ch("0123456789", n + 1)

\* The entries of a table that are neither tables nor table arrays.
ScalarPairs(tbl) ==
    {<<k, tbl.map[k]>> : k \in {j \in DOMAIN tbl.map :
                                  tbl.map[j].t \notin {"Table", "TableArray"}}}

StrictPrefixes(path) == Prefixes(path) \ {path}

NoArrayAbove(ht, path) ==
    \A q \in StrictPrefixes(path) : KindAt(ht, q) # "TableArray"

NoIndexSegment(path) == \A i \in 1..Len(path) : ~from_str_uint(path[i]).some

ElemsAt(ht, path) == ValueAt(ht, path).v.elems

\* The table array at q got a new element in this step.
Grew(q) ==
    /\ KindAt(root, q) = "TableArray"
    /\ KindAt(root', q) = "TableArray"
    /\ Len(ElemsAt(root', q)) > Len(ElemsAt(root, q))

C3_State ==
    status \in {"running", "Ok"} =>
      /\ \A p \in KnownPaths : KindAt(root, p) = "TableArray" <=> p \in DOMAIN appends
      /\ \A p \in DOMAIN appends :
           LET a == ElemsAt(root, p) IN
           /\ Len(a) = Len(appends[p])
           /\ \A k \in 1..Len(a) :
                /\ a[k].t = "Table"
                /\ ScalarPairs(a[k]) = appends[p][k]
                /\ (NoArrayAbove(root, p) /\ NoIndexSegment(p)) =>
                     \A kv \in appends[p][k] :
                        lookup(Tree(root),
                               JoinDots(p) \o "." \o DigitStr(k - 1) \o "." \o kv[1])
                          = Some(kv[2])

C3_FrozenStep ==
    \A p \in KnownPaths :
       (/\ status' \in {"running", "Ok"}
        /\ KindAt(root, p) = "TableArray"
        /\ \A q \in StrictPrefixes(p) : ~Grew(q))
       => /\ KindAt(root', p) = "TableArray"
          /\ LET old == ElemsAt(root, p)
                 new == ElemsAt(root', p)
             IN  /\ Len(new) \in {Len(old), Len(old) + 1}
                 /\ \A k \in 1..(Len(old) - 1) : new[k] = old[k]
                 /\ Len(new) = Len(old) + 1 => new[Len(old)] = old[Len(old)]

\* C3: n successive [[p]] headers leave at p a TableArray of exactly n tables
\* in header order; the k-th holds exactly the pairs read between the k-th
\* header and the next; pairs and sections go into the last element and an
\* element never changes once a later one exists; lookup("p.<k>.<key>")
\* finds the pairs of the k-th element.
C3_TableArrayAppend == []C3_State /\ [][C3_FrozenStep]_vars

C3_Witness ==
    /\ status = "running"
    /\ <<"a">> \in DOMAIN appends
    /\ Len(appends[<<"a">>]) = 2
    /\ appends[<<"a">>][1] = {<<"x", PosInt(U64(1))>>}
    /\ appends[<<"a">>][2] = {<<"x", PosInt(U64(2))>>}

SectionFails == ~ev'.ok /\ status' = "ParseError"

\* C4: a key never changes kind between Table and TableArray: [[p]] fails
\* when p names a Table, [p] fails when p names a TableArray, and a header
\* whose path ends at or passes through a scalar or an Array fails.
C4_KindIsFixed ==
    [][ /\ (ev'.op = "section" /\ ev'.called) =>
             LET path == SplitDots(ev'.name) IN
             /\ (ev'.is_array /\ KindAt(root, path) = "Table") => SectionFails
             /\ (~ev'.is_array /\ KindAt(root, path) = "TableArray") => SectionFails
             /\ (\E q \in Prefixes(path) :
                    KindAt(root, q) \notin {"absent", "Table", "TableArray"})
                  => SectionFails
        /\ status' # "ParseError" =>
             \A p \in KnownPaths :
                (/\ KindAt(root, p) \in {"Table", "TableArray"}
                 /\ \A q \in StrictPrefixes(p) : ~Grew(q))
                => KindAt(root', p) = KindAt(root, p) ]_vars

C4_Witness ==
    /\ ev.op = "section" /\ ~ev.ok /\ ev.called /\ ev.is_array
    /\ status = "ParseError"
    /\ KindAt(root, SplitDots(ev.name)) = "Table"
    /\ Len(SplitDots(ev.name)) > 1

TopKeys == {k \in DOMAIN root : ~from_str_uint(k).some}

\* C6: an index segment resolves against an Array by position as well as
\* against a TableArray: lookup("<k>.<i>") on an Array longer than i is its
\* i-th element.
C6_IndexIntoArray ==
    status \in {"running", "Ok"} =>
      \A k \in TopKeys :
         root[k].t = "Array" =>
           \A i \in 0..(Len(root[k].elems) - 1) :
              lookup(Tree(root), k \o "." \o DigitStr(i)) = Some(root[k].elems[i + 1])

\* C6 as the code has it: an index segment resolves against a TableArray
\* only; against an Array lookup yields None, and the elements of an Array
\* are reached by position through lookup_vec.
C6_IndexOnlyIntoTableArray ==
    status \in {"running", "Ok"} =>
      \A k \in TopKeys :
         /\ root[k].t = "Array" =>
              \A i \in 0..(Len(root[k].elems) - 1) :
                 /\ lookup(Tree(root), k \o "." \o DigitStr(i)) = None
                 /\ lookup(Tree(root), k).some
                 /\ lookup_vec(lookup(Tree(root), k).v, i) = Some(root[k].elems[i + 1])
         /\ root[k].t = "TableArray" =>
              /\ \A i \in 0..(Len(root[k].elems) - 1) :
                    lookup(Tree(root), k \o "." \o DigitStr(i)) = Some(root[k].elems[i + 1])
              /\ lookup(Tree(root), k \o "." \o DigitStr(Len(root[k].elems))) = None

C6_Witness ==
    /\ status = "Ok"
    /\ "x" \in DOMAIN root
    /\ root["x"].t = "Array"
    /\ Len(root["x"].elems) = 3
    /\ "a" \in DOMAIN root
    /\ root["a"].t = "TableArray"

\* A successful non-array header creates what is missing on its path:
\* intermediate tables unopened, the terminal table opened.
CreatesMissingTables(path) ==
    \A k \in 1..Len(path) :
       LET q == SubSeq(path, 1, k) IN
       KindAt(root, q) = "absent" =>
          /\ KindAt(root', q) = "Table"
          /\ ValueAt(root', q).v.opened = (k = Len(path))

\* lookup of every prefix of the path resolves to a Table.
PrefixesResolve(path) ==
    \A q \in Prefixes(path) :
       LET r == lookup(Tree(root'), JoinDots(q)) IN r.some /\ r.v.t = "Table"

\* A pair that follows a non-array header is found under the header's path.
PairIsUnderPath ==
    lookup(Tree(root'), JoinDots(current_path) \o "." \o ev'.key) = Some(ev'.val)

\* A table created implicitly accepts a later non-array header naming it.
ImplicitCanBeOpened ==
    (/\ ev'.op = "section" /\ ev'.called /\ ~ev'.is_array
     /\ KindAt(root, SplitDots(ev'.name)) = "Table"
     /\ ~ValueAt(root, SplitDots(ev'.name)).v.opened)
    => (ev'.ok /\ status' = "running")

HeaderStep == ev'.op = "section" /\ ev'.ok /\ ~ev'.is_array

PairAfterHeaderStep ==
    /\ ev'.op = "pair" /\ ev'.ok
    /\ current_path # <<>>
    /\ KindAt(root, current_path) = "Table"

\* No segment of the path reads as an index and no table array lies on it.
PlainPath(ht, path) ==
    /\ NoIndexSegment(path)
    /\ \A q \in Prefixes(path) : KindAt(ht, q) # "TableArray"

DivMod10(num) ==
    LET q4 == num[4] \div 10
        r4 == num[4] % 10
        q3 == (r4 * LimbBase + num[3]) \div 10
        r3 == (r4 * LimbBase + num[3]) % 10
        q2 == (r3 * LimbBase + num[2]) \div 10
        r2 == (r3 * LimbBase + num[2]) % 10
        q1 == (r2 * LimbBase + num[1]) \div 10
        r1 == (r2 * LimbBase + num[1]) % 10
    IN  [q |-> <<q1, q2, q3, q4>>, r |-> r1]

\* The decimal numeral of a u64, without leading zeros.
RECURSIVE ToDecimal(_)
ToDecimal(num) ==
    LET dm == DivMod10(num)
    IN  IF dm.q = <<0, 0, 0, 0>> THEN DigitStr(dm.r)
        ELSE ToDecimal(dm.q) \o DigitStr(dm.r)

RECURSIVE StripZeros(_)
StripZeros(d) ==
    IF Len(d) > 1 /\ Ch(d, 1) = "0" THEN StripZeros(SubSeq(d, 2, Len(d))) ELSE d

\* a <= b for numerals of the same length
RECURSIVE NumeralLeq(_, _)
NumeralLeq(a, b) ==
    IF a = "" THEN TRUE
    ELSE IF Ch(a, 1) = Ch(b, 1)
         THEN NumeralLeq(SubSeq(a, 2, Len(a)), SubSeq(b, 2, Len(b)))
    ELSE Ord(Ch(a, 1)) < Ord(Ch(b, 1))

MaxU64Numeral == "18446744073709551615"

FitsU64(d) ==
    LET n == StripZeros(d)
    IN  \/ Len(n) < Len(MaxU64Numeral)
        \/ Len(n) = Len(MaxU64Numeral) /\ NumeralLeq(n, MaxU64Numeral)

\* v is the integer the literal sign D denotes
IsIntOf(v, sign, d) ==
    /\ v.t = (IF sign = "-" THEN "NegInt" ELSE "PosInt")
    /\ ToDecimal(v.n) = StripZeros(d)

\* C8: for every digit run D whose value fits in u64 (and that no '.' or '-'
\* follows), the document key = D hands the visitor PosInt(value(D)) and
\* key = -D hands it NegInt(value(D)), also for -0; the parse ends Ok and
\* lookup("key") on the tree returns that integer.
C8_IntegerLiteral ==
    (doc.family = "int" /\ FitsU64(doc.digits)) =>
        /\ ev.op = "pair" =>
              ev.ok /\ ev.key = "key" /\ IsIntOf(ev.val, doc.sign, doc.digits)
        /\ status \in {"running", "Ok"}
        /\ nev >= 1 =>
              LET v == lookup(Tree(root), "key")
              IN  v.some /\ IsIntOf(v.v, doc.sign, doc.digits)

C8_Witness ==
    /\ doc.family = "int" /\ doc.sign = "-" /\ doc.digits = MaxU64Numeral
    /\ status = "Ok"
    /\ lookup(Tree(root), "key") =
          Some(NegInt(<<LimbBase - 1, LimbBase - 1, LimbBase - 1, LimbBase - 1>>))

(***************************************************************************)
(* Strings                                                                 *)
(***************************************************************************)
RECURSIVE Decoded(_)
Decoded(items) ==
    IF items = <<>> THEN <<>> ELSE items[1].dec \o Decoded(Tail(items))

WellFormedString(d) == d.closed /\ \A i \in 1..Len(d.items) : d.items[i].ok

\* The value the document assigns to key when its literal is well formed.
StringValueOf(d) ==
    IF d.in_array THEN Array(<<String(Decoded(d.items))>>)
    ELSE String(Decoded(d.items))

\* C9: a quoted literal made of the eight escapes, \uXXXX of a scalar value
\* and other characters decodes to exactly the characters they denote; a
\* literal with an unescaped CR, LF, form feed or backspace, an unknown
\* escape, fewer than four hex digits, a \u code that is no scalar value, or
\* no closing quote fails, and the parse then returns ParseError.
C9_StringDecoding ==
    doc.family = "string" =>
        IF WellFormedString(doc)
        THEN /\ status \in {"running", "Ok"}
             /\ nev >= 1 => lookup(Tree(root), "key") = Some(StringValueOf(doc))
        ELSE /\ status # "Ok"
             /\ nev >= 1 => status = "ParseError"

(***************************************************************************)
(* Datetimes                                                               *)
(***************************************************************************)
\* 9 stands for a decimal digit
DatetimeShape == "9999-99-99T99:99:99Z"

ExactShape(lit) ==
    /\ Len(lit) = Len(DatetimeShape)
    /\ \A i \in 1..Len(lit) :
          IF Ch(DatetimeShape, i) = "9" THEN IsDigit(Ch(lit, i))
          ELSE Ch(lit, i) = Ch(DatetimeShape, i)

\* The Datetime a literal of the exact shape spells out.
DatetimeOf(lit) ==
    Datetime(DecimalValue(SubSeq(lit, 1, 4)), DecimalValue(SubSeq(lit, 6, 7)),
             DecimalValue(SubSeq(lit, 9, 10)), DecimalValue(SubSeq(lit, 12, 13)),
             DecimalValue(SubSeq(lit, 15, 16)), DecimalValue(SubSeq(lit, 18, 19)))

RECURSIVE LeadingDigits(_)
LeadingDigits(lit) ==
    IF lit # "" /\ IsDigit(Ch(lit, 1)) THEN 1 + LeadingDigits(SubSeq(lit, 2, Len(lit)))
    ELSE 0

RunBeforeDash(lit) ==
    LET n == LeadingDigits(lit)
    IN  n >= 1 /\ n < Len(lit) /\ Ch(lit, n + 1) = "-"

RECURSIVE DatetimesOf(_)
DatetimesOf(v) ==
    CASE v.t = "Datetime" -> {v}
      [] v.t \in {"Array", "TableArray"} ->
            UNION {DatetimesOf(v.elems[i]) : i \in 1..Len(v.elems)}
      [] v.t = "Table" -> UNION {DatetimesOf(v.map[k]) : k \in DOMAIN v.map}
      [] OTHER -> {}

\* C10: every Datetime in the tree has month 1..12, day 1..31, hour <= 24,
\* minute <= 60 and second <= 60 and is what a literal YYYY-MM-DDThh:mm:ssZ
\* spells out; a digit run followed by '-' that is not the start of a literal
\* of exactly that shape makes the assignment fail with ParseError.
C10_DatetimeLiteral ==
    doc.family = "datetime" =>
        /\ \A v \in DatetimesOf(Tree(root)) :
              /\ v.mo \in 1..12 /\ v.d \in 1..31
              /\ v.h \in 0..24 /\ v.mi \in 0..60 /\ v.s \in 0..60
              /\ ExactShape(doc.lit) /\ v = DatetimeOf(doc.lit)
        /\ (RunBeforeDash(doc.lit) /\ ~ExactShape(doc.lit)) =>
              /\ status # "Ok"
              /\ nev >= 1 => status = "ParseError"

(***************************************************************************)
(* Arrays                                                                  *)
(***************************************************************************)
\* The class of a value and of a literal: PosInt and NegInt are one class.
ValueClass(v) == IF v.t \in {"PosInt", "NegInt"} THEN "integer" ELSE v.t

NodeClass(node) == IF node.k = "atom" THEN node.cls ELSE "array"

RECURSIVE Homogeneous(_)
Homogeneous(v) ==
    CASE v.t = "Array" ->
            /\ \A i \in 1..Len(v.elems) :
                  /\ ValueClass(v.elems[i]) = ValueClass(v.elems[1])
                  /\ have_equiv_types(v.elems[1], v.elems[i])
                  /\ Homogeneous(v.elems[i])
      [] v.t = "TableArray" -> \A i \in 1..Len(v.elems) : Homogeneous(v.elems[i])
      [] v.t = "Table" -> \A k \in DOMAIN v.map : Homogeneous(v.map[k])
      [] OTHER -> TRUE

\* Some array literal in node has an element of another class than its first.
RECURSIVE Mismatch(_)
Mismatch(node) ==
    /\ node.k = "list"
    /\ \E i \in 1..Len(node.elems) :
          \/ NodeClass(node.elems[i]) # NodeClass(node.elems[1])
          \/ Mismatch(node.elems[i])

\* C5: every Array in the tree has elements of one class (PosInt and NegInt
\* together, an integer and a float apart, arrays together whatever they
\* hold), and an array literal with an element of another class than its
\* first makes the assignment fail with ParseError.
C5_ArrayHomogeneous ==
    doc.family = "array" =>
        /\ Homogeneous(Tree(root))
        /\ Mismatch(doc.ast) =>
              /\ status # "Ok"
              /\ "x" \notin DOMAIN root
              /\ nev >= 1 => status = "ParseError"

(***************************************************************************)
(* Decoding: what a target type asks of a value                            *)
(***************************************************************************)
\* The Value variants a primitive target type can be decoded from.
RequiredVariants(name) ==
    CASE name \in {"u8", "u16", "u32", "u64", "uint"} -> {"PosInt"}
      [] name \in {"i8", "i16", "i32", "i64", "int"}  -> {"PosInt", "NegInt"}
      [] name = "bool" -> {"Boolean"}
      [] name = "f64"  -> {"Float"}
      [] name \in {"str", "char"} -> {"String"}

WidthOf(name) ==
    CASE name \in {"u8", "i8"}   -> 8
      [] name \in {"u16", "i16"} -> 16
      [] name \in {"u32", "i32"} -> 32
      [] name \in {"u64", "i64", "uint", "int"} -> 64

\* The numerals of 2^w - 1, 2^(w-1) - 1 and 2^(w-1).
MaxUnsignedNumeral ==
    [w \in {8, 16, 32, 64} |->
        CASE w = 8 -> "255" [] w = 16 -> "65535" [] w = 32 -> "4294967295"
          [] w = 64 -> "18446744073709551615"]

MaxSignedNumeral ==
    [w \in {8, 16, 32, 64} |->
        CASE w = 8 -> "127" [] w = 16 -> "32767" [] w = 32 -> "2147483647"
          [] w = 64 -> "9223372036854775807"]

MinSignedNumeral ==
    [w \in {8, 16, 32, 64} |->
        CASE w = 8 -> "128" [] w = 16 -> "32768" [] w = 32 -> "2147483648"
          [] w = 64 -> "9223372036854775808"]

\* the u64 n is at most the number the numeral bound denotes
AtMost(n, bound) ==
    LET d == ToDecimal(n)
    IN  Len(d) < Len(bound) \/ (Len(d) = Len(bound) /\ NumeralLeq(d, bound))

\* The integer v lies in the range of the integer type name.
InRange(name, v) ==
    IF RequiredVariants(name) = {"PosInt"}
    THEN v.t = "PosInt" /\ AtMost(v.n, MaxUnsignedNumeral[WidthOf(name)])
    ELSE \/ v.t = "PosInt" /\ AtMost(v.n, MaxSignedNumeral[WidthOf(name)])
         \/ v.t = "NegInt" /\ AtMost(v.n, MinSignedNumeral[WidthOf(name)])

IsIntegerType(name) == name \in DOMAIN UnsignedBits \cup DOMAIN SignedBits

\* The value v is one the type ty decodes from; an absent field is NoValue.
RECURSIVE Conforms(_, _)
Conforms(ty, v) ==
    CASE ty.k = "prim" ->
            /\ v.t \in RequiredVariants(ty.name)
            /\ IsIntegerType(ty.name) => InRange(ty.name, v)
            /\ ty.name = "char" => StrLen(v.s) = 1
      [] ty.k = "option" -> v = NoValue \/ Conforms(ty.of, v)
      [] ty.k = "vec" ->
            /\ v.t \in {"Array", "TableArray"}
            /\ \A i \in DOMAIN v.elems : Conforms(ty.of, v.elems[i])
      [] ty.k = "struct" ->
            /\ v.t = "Table"
            /\ \A i \in DOMAIN ty.fields :
                  Conforms(ty.fields[i].ty,
                           IF ty.fields[i].name \in DOMAIN v.map
                           THEN v.map[ty.fields[i].name] ELSE NoValue)
      [] ty.k = "hashmap" ->
            /\ v.t = "Table"
            /\ \A q \in DOMAIN v.map : Conforms(ty.of, v.map[q])

\* What the table holds for a field; NoValue when the key is absent.
Stored(tbl, name) == IF name \in DOMAIN tbl.map THEN tbl.map[name] ELSE NoValue

\* Every field before the i-th finds a value it decodes from.
EarlierFieldsConform(ty, tbl, i) ==
    \A j \in 1..(i - 1) : Conforms(ty.fields[j].ty, Stored(tbl, ty.fields[j].name))

\* C11: a named field whose stored Value is not of the variant the field's
\* primitive type requires fails the decode with ParseErrorInField(name)
\* (the fields before it decoding), e.g. host = "h" into {host: integer};
\* a primitive asked of a Value of another variant outside any struct field
\* fails with plain ParseError.
C11_FieldMismatch ==
    decoding.k = "done" =>
        /\ (decoding.ty.k = "struct" /\ decoding.value.t = "Table") =>
              \A i \in DOMAIN decoding.ty.fields :
                 LET f == decoding.ty.fields[i]
                 IN  (/\ f.ty.k = "prim"
                      /\ f.name \in DOMAIN decoding.value.map
                      /\ decoding.value.map[f.name].t \notin RequiredVariants(f.ty.name)
                      /\ EarlierFieldsConform(decoding.ty, decoding.value, i))
                     => decoding.res = Err(ParseErrorInField(f.name))
        /\ (/\ decoding.ty.k = "prim"
            /\ decoding.value.t \notin RequiredVariants(decoding.ty.name))
              => decoding.res = Err(ParseError)
        /\ (/\ decoding.ty.k = "vec" /\ decoding.ty.of.k = "prim"
            /\ decoding.value.t = "Array"
            /\ \E i \in DOMAIN decoding.value.elems :
                  decoding.value.elems[i].t \notin RequiredVariants(decoding.ty.of.name))
              => decoding.res = Err(ParseError)

C11_Witness ==
    /\ decoding.k = "done"
    /\ decoding.ty = StructOf(<<Field("host", Prim("uint")), Field("port", Prim("str"))>>)
    /\ decoding.value = Table(FALSE, [q \in {"host"} |-> String(Codes("h"))])
    /\ decoding.res = Err(ParseErrorInField("host"))

\* C12: a record field whose name is absent from the Table is decoded
\* against NoValue: an Option field decodes to the empty option and the
\* decode goes on with the fields after it; a field of a primitive, sequence,
\* record or map type fails with ParseErrorInField(name).  An Option field
\* whose key is present decodes to Some of the decoded inner value.
C12_AbsentField ==
    (decoding.k = "done" /\ decoding.ty.k = "struct" /\ decoding.value.t = "Table") =>
        \A i \in DOMAIN decoding.ty.fields :
           LET f == decoding.ty.fields[i]
           IN  EarlierFieldsConform(decoding.ty, decoding.value, i) =>
                 /\ (f.name \notin DOMAIN decoding.value.map /\ f.ty.k # "option")
                       => decoding.res = Err(ParseErrorInField(f.name))
                 /\ (f.name \notin DOMAIN decoding.value.map /\ f.ty.k = "option") =>
                       /\ decoding.res.ok => decoding.res.v[i] = [name |-> f.name, v |-> None]
                       /\ ~decoding.res.ok => decoding.res.err # ParseErrorInField(f.name)
                       /\ Conforms(decoding.ty, decoding.value) => decoding.res.ok
                 /\ (/\ f.name \in DOMAIN decoding.value.map /\ f.ty.k = "option"
                     /\ Conforms(decoding.ty, decoding.value)) =>
                       /\ decoding.res.ok
                       /\ decoding.res.v[i] =
                            [name |-> f.name,
                             v |-> Some(from_toml(f.ty.of, decoding.value.map[f.name]).v)]

\* The example's Config from the example's document, which has no port.
C12_Witness ==
    /\ decoding.k = "done"
    /\ decoding.ty = Config
    /\ decoding.value = ConfigValue
    /\ decoding.res.ok
    /\ decoding.res.v[1] = [name |-> "host", v |-> Codes("localhost")]
    /\ decoding.res.v[2] = [name |-> "port", v |-> None]
    /\ Len(decoding.res.v[4].v) = 2

\* An absent str field after an absent Option field.
C12_WitnessFails ==
    /\ decoding.k = "done"
    /\ decoding.ty = StructOf(<<Field("host", OptionOf(Prim("uint"))), Field("port", Prim("str"))>>)
    /\ decoding.value = Table(FALSE, EmptyMap)
    /\ decoding.res = Err(ParseErrorInField("port"))

\* A present Option field.
C12_WitnessPresent ==
    /\ decoding.k = "done"
    /\ decoding.ty = StructOf(<<Field("host", Prim("str")), Field("port", OptionOf(Prim("uint")))>>)
    /\ decoding.value.t = "Table"
    /\ DOMAIN decoding.value.map = {"host", "port"}
    /\ decoding.res.ok
    /\ decoding.res.v[2] = [name |-> "port", v |-> Some(U64(7))]

\* C19: an integer Value decodes into an integer type with the exact value
\* precisely when the value lies in the type's range, and fails with
\* ParseError otherwise: for a signed type PosInt(v) decodes iff v <= max and
\* NegInt(v) decodes to -v iff -v >= min, the minimum NegInt(2^(w-1))
\* included; for an unsigned type PosInt(v) decodes iff v <= max and every
\* NegInt fails.
C19_IntegerWidths ==
    (/\ decoding.k = "done" /\ decoding.ty.k = "prim"
     /\ IsIntegerType(decoding.ty.name)
     /\ decoding.value.t \in {"PosInt", "NegInt"}) =>
        IF InRange(decoding.ty.name, decoding.value)
        THEN /\ decoding.res.ok
             /\ decoding.res.v =
                  IF RequiredVariants(decoding.ty.name) = {"PosInt"}
                  THEN decoding.value.n
                  ELSE [neg |-> decoding.value.t = "NegInt" /\ decoding.value.n # U64(0),
                        mag |-> decoding.value.n]
        ELSE decoding.res = Err(ParseError)

\* C20: decoding a sequence needs an Array or a TableArray, any other Value
\* fails with ParseError; the decoded sequence has as many elements as the
\* original, and its i-th element is the decode of the original's i-th
\* element, each once and in the original order (the first element that
\* fails to decode ends the decode with its error).
C20_SequenceDecoding ==
    (decoding.k = "done" /\ decoding.ty.k = "vec") =>
        IF decoding.value.t \notin {"Array", "TableArray"}
        THEN decoding.res = Err(ParseError)
        ELSE LET elems == decoding.value.elems
                 each  == [i \in DOMAIN elems |-> from_toml(decoding.ty.of, elems[i])]
             IN  IF \A i \in DOMAIN elems : each[i].ok
                 THEN /\ decoding.res.ok
                      /\ Len(decoding.res.v) = Len(elems)
                      /\ \A i \in DOMAIN elems : decoding.res.v[i] = each[i].v
                 ELSE \E i \in DOMAIN elems :
                        /\ \A j \in 1..(i - 1) : each[j].ok
                        /\ ~each[i].ok
                        /\ decoding.res = each[i]

C20_Witness ==
    /\ decoding.k = "done"
    /\ decoding.ty = VecOf(Prim("uint"))
    /\ decoding.value = Array(<<PosInt(U64(1)), PosInt(U64(2)), PosInt(U64(3))>>)
    /\ decoding.res = Ok(<<U64(1), U64(2), U64(3)>>)

\* The cuts of a document that fall between two statements: its start and
\* the positions after a line end.
RECURSIVE StatementEnds(_)
StatementEnds(text) ==
    IF text = "" THEN {0}
    ELSE StatementEnds(SubSeq(text, 1, Len(text) - 1)) \cup
         (IF Ch(text, Len(text)) = "\n" THEN {Len(text)} ELSE {})

\* The tree of a whole document, statement by statement.
TreeOfBase1 ==
    [q \in {"t", "u"} |->
       IF q = "t"
       THEN Table(TRUE,
              [r \in {"key", "arr"} |->
                 IF r = "key" THEN String(Codes("s"))
                 ELSE Array(<<Array(<<PosInt(U64(1))>>), Array(<<PosInt(U64(2))>>)>>)])
       ELSE TableArray(<<Table(FALSE, [r \in {"x"} |-> Boolean(TRUE)])>>)]

\* C13: a read fault other than end-of-file ends the parse with IOError at
\* whatever position of the document it occurs (between statements, inside
\* a key, a header, a string or an array), never with Ok or ParseError; a
\* clean end of the input between statements (also of an empty,
\* whitespace-only or comment-only input) ends it with Ok and the tree built
\* so far.
C13_ReadFault ==
    (doc.family = "cut" /\ status # "running") =>
        /\ src_end # "EndOfFile" => status = "IOError"
        /\ (src_end = "EndOfFile" /\ doc.cut \in StatementEnds(doc.base)) => status = "Ok"
        /\ (src_end = "EndOfFile" /\ doc.cut = Len(doc.base) /\ Len(doc.base) > 40)
              => root = TreeOfBase1

\* The sub-parse of node yields no value: a malformed literal, or an array
\* literal with an element that yields none or is of another class than
\* its first.
RECURSIVE YieldsNoValue(_)
YieldsNoValue(node) ==
    IF node.k = "atom" THEN node.cls = "malformed"
    ELSE \E i \in 1..Len(node.elems) :
            \/ YieldsNoValue(node.elems[i])
            \/ NodeClass(node.elems[i]) # NodeClass(node.elems[1])

\* C14: if the sub-parse of an element of an array literal fails (a
\* malformed literal such as t or -, or a nested array with a type
\* mismatch), the assignment yields no value and the parse ends with
\* ParseError: the array is never accepted with the remaining elements.
C14_NoSilentRecovery ==
    (/\ doc.family = "element"
     /\ \E i \in 1..Len(doc.ast.elems) : YieldsNoValue(doc.ast.elems[i])) =>
        /\ status # "Ok"
        /\ "x" \notin DOMAIN root
        /\ nev >= 1 => status = "ParseError"

HasComment(trivia) == \E i \in 1..Len(trivia) : Ch(trivia, i) = "#"

\* The trivia stands between a key and its '='.
BeforeAssign(d) == d.gap < Len(d.tokens) /\ d.tokens[d.gap + 1] = "="

SingleStep(v, seg) ==
    LET n == from_str_uint(seg)
    IN  IF n.some THEN lookup_idx(n.v, v) ELSE lookup_key(seg, v)

\* The left-to-right fold of the single steps, Absent from the first
\* step that finds nothing.
RECURSIVE FoldSteps(_, _)
FoldSteps(v, segs) ==
    IF segs = <<>> THEN Some(v)
    ELSE LET r == SingleStep(v, Head(segs))
         IN  IF r.some THEN FoldSteps(r.v, Tail(segs)) ELSE None

\* The segment cannot be resolved on v: a key on a non-Table or a missing
\* key, an index on a Table or a scalar or beyond the end of a sequence.
Unresolvable(v, seg) ==
    IF from_str_uint(seg).some
    THEN \/ v.t \notin {"Array", "TableArray"}
         \/ from_str_uint(seg).v >= Len(v.elems)
    ELSE v.t # "Table" \/ seg \notin DOMAIN v.map

\* The dotted string of a list of path elements.
RECURSIVE Dotted(_)
Dotted(elts) ==
    LET head == IF Head(elts).kind = "Key" THEN Head(elts).key
                ELSE DigitStr(Head(elts).idx)
    IN  IF Len(elts) = 1 THEN head ELSE head \o "." \o Dotted(Tail(elts))

\* first, then rest on what it found
Then(first, rest) == IF first.some THEN lookup(first.v, rest) ELSE None

\* C17: lookup on a dotted path is the left-to-right fold of the single-step
\* lookups over its segments, Absent as soon as a segment cannot be resolved
\* (a key on a non-Table, an index on a Table or scalar, a missing key, an
\* index not below the length); lookup(p.q) is lookup(p) followed by
\* lookup(q) for non-empty p and q; and the lookup with a list of path
\* elements gives what lookup gives for the list's dotted string.
C17_LookupIsFold ==
    \A n \in DOMAIN looked :
       LET e == looked[n] IN
       /\ e.op = "lookup" =>
             LET segs == SplitDots(e.arg) IN
             /\ e.res = FoldSteps(Tree(root), segs)
             /\ \A k \in DOMAIN segs :
                   LET before == FoldSteps(Tree(root), SubSeq(segs, 1, k - 1))
                   IN  (before.some /\ Unresolvable(before.v, segs[k])) => e.res = None
             /\ \A i \in 2..(Len(e.arg) - 1) :
                   Ch(e.arg, i) = "." =>
                      e.res = Then(lookup(Tree(root), SubSeq(e.arg, 1, i - 1)),
                                   SubSeq(e.arg, i + 1, Len(e.arg)))
       /\ (e.op = "lookup_path" /\ e.arg # <<>>) =>
             e.res = lookup(Tree(root), Dotted(e.arg))

\* A dotted path and the list of its elements, both finding the value.
C17_Witness ==
    /\ Len(looked) = 2
    /\ looked[1] = [op |-> "lookup", arg |-> "products.1.name",
                    res |-> Some(String(Codes("Product 2")))]
    /\ looked[2] = [op |-> "lookup_path",
                    arg |-> <<Key("products"), Idx(1), Key("name")>>,
                    res |-> looked[1].res]

(***************************************************************************)
(* Section headers                                                         *)
(***************************************************************************)
\* C18: a section header with an empty name ([], [[]]) or with an empty
\* dot-separated segment ([a..b], [.a], [a.]) fails with ParseError, and so
\* does a [[ header that ]] does not close; the step that reads the header
\* leaves the tree as it was, and the parse never ends Ok.
C18_BadHeader ==
    [][doc.family = "header" =>
         /\ status' # "Ok"
         /\ nev = doc.before.n => (status' = "ParseError" /\ root' = root)
         /\ nev < doc.before.n => status' = "running"]_vars

\* [a..b] after [a] and x = 1: ParseError, and a still holds x alone.
C18_Witness ==
    /\ doc.family = "header"
    /\ doc.before.text = "[a]\nx = 1\n"
    /\ doc.header = "[a..b]"
    /\ nev = 3
    /\ status = "ParseError"
    /\ ev.op = "section" /\ ev.called
    /\ root = [q \in {"a"} |-> Table(TRUE, [r \in {"x"} |-> PosInt(U64(1))])]

(***************************************************************************)
(* Records                                                                 *)
(***************************************************************************)
\* The table without the entry for name.
Without(hm, name) == [q \in DOMAIN hm \ {name} |-> hm[q]]

\* C21: read_struct needs a Table (else ParseError), and each
\* read_struct_field(name) takes the entry for name out of the working
\* table: the first read of a name decodes its stored value, a later read of
\* the same name decodes against NoValue, and entries whose names are never
\* asked for stay in the table and cause no error.
C21_FieldsAreConsumed ==
    (decoding.k = "done" /\ decoding.ty.k = "struct") =>
        IF decoding.value.t # "Table" THEN decoding.res = Err(ParseError)
        ELSE LET fields == decoding.ty.fields
                 hm     == decoding.value.map
                 first  == read_struct_field(Decoder_new_state(Tab(hm)),
                                             fields[1].name, fields[1].ty)
             IN  /\ first.d.state = Tab(Without(hm, fields[1].name))
                 /\ (fields[1].name \in DOMAIN hm /\ first.res.ok) =>
                       first.res = from_toml(fields[1].ty, hm[fields[1].name])
                 /\ (Len(fields) = 2 /\ fields[2].name = fields[1].name /\ first.res.ok) =>
                       LET second == read_struct_field(first.d, fields[2].name, fields[2].ty)
                           absent == from_toml(fields[2].ty, NoValue)
                       IN  /\ second.res = IF absent.ok THEN absent
                                           ELSE Err(ParseErrorInField(fields[2].name))
                           /\ second.d.state = first.d.state
                           /\ decoding.res.ok = absent.ok
                           /\ decoding.res.ok => decoding.res.v[2].v = absent.v
                 /\ Len(fields) = 1 =>
                       decoding.res.ok = Conforms(fields[1].ty, Stored(decoding.value, fields[1].name))

\* host is read twice, as a str and as an Option: the second read finds
\* nothing, and port was never asked for.
C21_Witness ==
    /\ decoding.k = "done"
    /\ decoding.ty = StructOf(<<Field("host", Prim("str")),
                                Field("host", OptionOf(Prim("str")))>>)
    /\ decoding.value.t = "Table"
    /\ DOMAIN decoding.value.map = {"host", "port"}
    /\ decoding.res = Ok(<<[name |-> "host", v |-> Codes("h")],
                           [name |-> "host", v |-> None]>>)

(***************************************************************************)
(* The tree under section and pair events                                  *)
(***************************************************************************)
\* Every TableArray in v is a non-empty sequence of Tables.
RECURSIVE TableArraysOk(_)
TableArraysOk(v) ==
    CASE v.t = "TableArray" ->
            /\ Len(v.elems) > 0
            /\ \A i \in DOMAIN v.elems :
                  v.elems[i].t = "Table" /\ TableArraysOk(v.elems[i])
      [] v.t = "Table" -> \A q \in DOMAIN v.map : TableArraysOk(v.map[q])
      [] v.t = "Array" -> \A i \in DOMAIN v.elems : TableArraysOk(v.elems[i])
      [] OTHER -> TRUE

\* The positions of the elements of the TableArrays of v: the keys and the
\* indices that lead from v to each of them.
RECURSIVE Elements(_)
Elements(v) ==
    CASE v.t = "TableArray" ->
            UNION {{<<Idx(i)>>} \cup {<<Idx(i)>> \o p : p \in Elements(v.elems[i])} :
                   i \in DOMAIN v.elems}
      [] v.t = "Table" ->
            UNION {{<<Key(q)>> \o p : p \in Elements(v.map[q])} : q \in DOMAIN v.map}
      [] OTHER -> {}

\* b holds every TableArray element that a held, at its position.
Kept(a, b) == Elements(a) \subseteq Elements(b)

\* C22 as stated: after every sequence of section and pair events every
\* TableArray of the tree is a non-empty sequence of Tables; a pair event
\* brings no Table and no TableArray, and no event removes an element.
C22_TableArrays ==
    [][/\ TableArraysOk(Tree(root'))
       /\ Kept(Tree(root), Tree(root'))
       /\ ev'.op = "pair" => ev'.val.t \notin {"Table", "TableArray"}]_vars

\* C22, amended: the same, with no event that succeeds removing an element;
\* a pair that fails on a key that is already there has stored its value
\* over what the key held.
C22_TableArraysUnderSuccess ==
    [][/\ TableArraysOk(Tree(root'))
       /\ status' # "ParseError" => Kept(Tree(root), Tree(root'))
       /\ (ev'.op = "pair" /\ ~ev'.ok) =>
             LET t == TableAt(root, current_path)
             IN  /\ t.some /\ ev'.key \in DOMAIN t.v
                 /\ TableAt(root', current_path).v[ev'.key] = ev'.val
       /\ ev'.op = "pair" => ev'.val.t \notin {"Table", "TableArray"}]_vars

\* A second [[a]] has been appended and a pair stored in it.
C22_Witness ==
    /\ doc.family = "events"
    /\ "a" \in DOMAIN root /\ root["a"].t = "TableArray"
    /\ Len(root["a"].elems) = 2
    /\ ev.op = "pair" /\ ev.ok
    /\ DOMAIN root["a"].elems[1].map = {} /\ DOMAIN root["a"].elems[2].map = {"x"}

(***************************************************************************)
(* The table of the current path                                           *)
(***************************************************************************)
\* Every node of v with its position: a Table with its flag, a TableArray,
\* and every other value as it is.
RECURSIVE Nodes(_)
Nodes(v) ==
    CASE v.t = "Table" ->
            {<<<<>>, [t |-> "Table", opened |-> v.opened]>>} \cup
            UNION {{<<<<Key(q)>> \o n[1], n[2]>> : n \in Nodes(v.map[q])} :
                   q \in DOMAIN v.map}
      [] v.t = "TableArray" ->
            {<<<<>>, [t |-> "TableArray"]>>} \cup
            UNION {{<<<<Idx(i)>> \o n[1], n[2]>> : n \in Nodes(v.elems[i])} :
                   i \in DOMAIN v.elems}
      [] OTHER -> {<<<<>>, v>>}

\* The position the path leads to from v, by the last element of every
\* TableArray; defined where TableAt is.
RECURSIVE PositionAt(_, _)
PositionAt(v, path) ==
    CASE v.t = "TableArray" ->
            <<Idx(Len(v.elems))>> \o PositionAt(v.elems[Len(v.elems)], path)
      [] v.t = "Table" /\ Len(path) > 0 ->
            <<Key(Head(path))>> \o PositionAt(v.map[Head(path)], Tail(path))
      [] OTHER -> <<>>

\* The current path leads to a table.
PathResolves(ht, path) == TableAt(ht, path).some

\* C23: while every event has succeeded (and initially) the current path,
\* walked from the root by the last element of every TableArray, leads to a
\* Table; a pair whose key is not yet in that table succeeds, and the tree
\* after it is the tree before it with the value added under the key in
\* that table and nothing else changed.
C23_CurrentTable ==
    [][/\ (status = "running" /\ nev = 0) => PathResolves(root, current_path)
       /\ status' = "running" => PathResolves(root', current_path')
       /\ (/\ ev'.op = "pair"
           /\ ev'.key \notin DOMAIN TableAt(root, current_path).v)
          => /\ ev'.ok /\ status' = "running"
             /\ TableAt(root', current_path).v =
                   [q \in DOMAIN TableAt(root, current_path).v \cup {ev'.key} |->
                      IF q = ev'.key THEN ev'.val
                      ELSE TableAt(root, current_path).v[q]]
             /\ Nodes(Tree(root')) \ Nodes(Tree(root)) =
                   {<<PositionAt(Tree(root), current_path) \o n[1], n[2]>> :
                      n \in {<<<<Key(ev'.key)>> \o m[1], m[2]>> :
                               m \in Nodes(ev'.val)}}
             /\ Nodes(Tree(root)) \subseteq Nodes(Tree(root'))]_vars

\* A pair has been stored in the second table of [[a]], two segments deep.
C23_Witness ==
    /\ ev.op = "pair" /\ ev.ok /\ status = "running"
    /\ current_path = <<"a", "b">>
    /\ KindAt(root, <<"a">>) = "TableArray"
    /\ Len(root["a"].elems) = 2
    /\ "b" \notin DOMAIN root["a"].elems[1].map
    /\ TableAt(root, current_path).v = [q \in {ev.key} |-> ev.val]

(***************************************************************************)
(* The first failure                                                       *)
(***************************************************************************)
\* The keys of the root table and of the tables below it.
RECURSIVE KeysOf(_)
KeysOf(v) ==
    CASE v.t = "Table" ->
            DOMAIN v.map \cup UNION {KeysOf(v.map[q]) : q \in DOMAIN v.map}
      [] v.t = "TableArray" -> UNION {KeysOf(v.elems[i]) : i \in DOMAIN v.elems}
      [] OTHER -> {}

\* The parse has ended at the failing statement of the document: with
\* ParseError, after as many turns as there are statements up to it, with
\* nothing read beyond it and nothing of what follows it in the tree.
EndedAtFailure ==
    /\ status = "ParseError"
    /\ nev = doc.before.n + doc.failure.ok + 1
    /\ pos <= Len(doc.before.text \o doc.failure.text) + 1
    /\ KeysOf(Tree(root)) \cap {"y", "z", "w"} = {}

\* C24: once the visitor returns false from section or pair, or a grammar
\* violation is detected, the parse ends with Err at once: no further event
\* is delivered, no further input is read, and the result is that Err.
C24_FirstFailureTerminal ==
    (doc.family = "fail" /\ (status # "running" \/ nev > doc.before.n + doc.failure.ok))
        => EndedAtFailure

(***************************************************************************)
(* Termination                                                             *)
(***************************************************************************)
\* C25: for every finite input the parse ends with Ok or Err; every turn of
\* the statement loop that does not end the parse has consumed at least one
\* character, and no character is read after the end of the stream (or a
\* read fault) has been observed.
C25_Terminates ==
    /\ <>(status \in {"Ok", "ParseError", "IOError"})
    /\ [](pos <= Len(src) + 1)
    /\ [][status' = "running" => pos' > pos]_vars

\* A whole document with a comment, a string, arrays and both kinds of
\* header has been parsed to its end.
C25_Witness ==
    /\ doc.family = "cut" /\ doc.cut = Len(doc.base) /\ Len(doc.base) > 40
    /\ status = "Ok" /\ pos = Len(src) + 1 /\ nev = 6

(***************************************************************************)
(* The line counter                                                        *)
(***************************************************************************)
\* The number of line feeds among the first n characters of text.
RECURSIVE LineFeeds(_, _)
LineFeeds(text, n) ==
    IF n = 0 THEN 0
    ELSE LineFeeds(text, n - 1) + (IF Ch(text, n) = "\n" THEN 1 ELSE 0)

\* C26: at every point of a parse the line counter is 1 plus the number of
\* line feeds the scanner has advanced past, also for an input that begins
\* with a line feed and for line feeds that end comments; the line at a
\* failure is the line of the failure position.
C26_LineCounter ==
    doc.family = "cut" => line = 1 + LineFeeds(src, pos - 1)

(***************************************************************************)
(* The keys of a parsed tree                                               *)
(***************************************************************************)
\* C27: in every successfully parsed tree every key of every Table is
\* non-empty and contains no "."; an assignment whose identifier is empty or
\* contains a "." is rejected with ParseError.
C27_Keys ==
    doc.family = "key" =>
        /\ status = "Ok" => \A k \in KeysOf(Tree(root)) : k # "" /\ ~InStr(k, ".")
        /\ (status # "running" /\ (doc.key = "" \/ InStr(doc.key, ".")))
              => status = "ParseError"

(***************************************************************************)
(* Errors from nested records                                              *)
(***************************************************************************)
\* The first element of a sequence that is Some, or None.
RECURSIVE FirstSome(_)
FirstSome(es) ==
    IF es = <<>> THEN None
    ELSE IF Head(es).some THEN Head(es) ELSE FirstSome(Tail(es))

\* The error the decode of v as ty ends with, None when there is none: a
\* value of the wrong shape is a plain ParseError, which the struct field it
\* occurs in turns into ParseErrorInField of its own name; every other error
\* goes up as it is, from the first element or field that has one.
RECURSIVE Fault(_, _)
Fault(ty, v) ==
    CASE ty.k = "closure" -> IF ty.res.ok THEN None ELSE Some(ty.res.err)
      [] ty.k = "prim" -> IF Conforms(ty, v) THEN None ELSE Some(ParseError)
      [] ty.k = "option" -> IF v = NoValue THEN None ELSE Fault(ty.of, v)
      [] ty.k = "vec" ->
            IF v.t \notin {"Array", "TableArray"} THEN Some(ParseError)
            ELSE FirstSome([i \in DOMAIN v.elems |-> Fault(ty.of, v.elems[i])])
      [] ty.k = "struct" ->
            IF v.t # "Table" THEN Some(ParseError)
            ELSE FirstSome([i \in DOMAIN ty.fields |->
                    LET f == ty.fields[i]
                        e == Fault(f.ty, Stored(v, f.name))
                    IN  IF e = Some(ParseError)
                        THEN Some(ParseErrorInField(f.name)) ELSE e])

\* C28: a mismatch inside nested records ends the decode with
\* ParseErrorInField of the innermost struct field being decoded at the
\* mismatch; the enclosing fields pass a tagged error on unchanged and tag
\* only a plain ParseError, and an IOError is never tagged.
C28_InnermostField ==
    (decoding.k = "done" /\ decoding.ty \in NestedTypes) =>
        LET e == Fault(decoding.ty, decoding.value)
        IN  IF e.some THEN decoding.res = Err(e.v) ELSE decoding.res.ok

\* The second product of a sequence under host has no name; port would
\* have failed too.
C28_Witness ==
    /\ decoding.k = "done"
    /\ decoding.ty = StructOf(<<Field("host", VecOf(Product)), Field("port", Wrapper)>>)
    /\ decoding.value.t = "Table"
    /\ DOMAIN decoding.value.map = {"host", "port"}
    /\ decoding.value.map["host"] =
          TableArray(<<ProductValue(1, "p"), Table(FALSE, [q \in {"id"} |-> PosInt(U64(1))])>>)
    /\ decoding.value.map["port"] = String(Codes("h"))
    /\ decoding.res = Err(ParseErrorInField("name"))

(***************************************************************************)
(* Digit runs beyond u64                                                   *)
(***************************************************************************)
\* C29: PosInt(n) or NegInt(n) is produced only with n the decimal value of
\* the digit run; a run whose value exceeds 2^64 - 1 produces no integer and
\* is rejected with ParseError, never accepted with its value reduced
\* modulo 2^64.
C29_NoWrapAround ==
    doc.family = "int" =>
        /\ (ev.op = "pair" /\ ev.val.t \in {"PosInt", "NegInt"})
              => IsIntOf(ev.val, doc.sign, doc.digits)
        /\ (~FitsU64(doc.digits) /\ status # "running") => status = "ParseError"

(***************************************************************************)
(* Assertions                                                              *)
(***************************************************************************)
\* C30: no assert!, unreachable!() or unwrap of the parser and the tree
\* builder fails: recursive_create_tree gets a non-empty path, every
\* TableArray met is non-empty with a Table last, the insert after an
\* absent lookup reports a new key, and read_digits entered on a digit
\* returns a number.
C30_NoPanic ==
    /\ status # "Panic"
    /\ ev.op # "panic"
    /\ ev.op = "section" => Len(SplitDots(ev.name)) > 0

\* A pair has been stored three segments below the second table of [[a]].
C30_Witness ==
    /\ doc.family = "events" /\ status = "running"
    /\ ev.op = "pair" /\ ev.ok
    /\ current_path = <<"a", "b", "c">>
    /\ KindAt(root, <<"a">>) = "TableArray"
    /\ Len(root["a"].elems) = 2

====
